---- MODULE Spec2Model ----
(***************************************************************************)
(* A model of the jfm compiler pipeline (lexer, parser, semantic analyzer, *)
(* driver).  Each stage has its own specification over its own variables;  *)
(* the variables of the other stages stay at their idle values.            *)
(***************************************************************************)
EXTENDS Integers, Sequences, FiniteSets, TLC

VARIABLES
    source,     \* lexer: the NUL-terminated source buffer, as a sequence of bytes
    lexer,      \* lexer: the Lexer struct (current, line, column, tokens)
    lpc,        \* lexer: position inside lexer_scan_tokens
    opts,       \* driver: the command line options
    drv,        \* driver: position in the driver, stage results, what has run
    tokens,     \* parser: the token array handed to parser_create
    parser,     \* parser: the Parser struct and what parsing has done so far
    ppc,        \* parser: position inside parser_parse
    ast,        \* semantic: the program handed to semantic_analyze
    analyzer,   \* semantic: the SemanticAnalyzer struct
    spc,        \* semantic: position inside semantic_analyze
    table,      \* symbol table: the SymbolTable struct
    last,       \* symbol table: the last call made on it and what it returned
    operands,   \* types: the two types handed to semantic_check_types_compatible
    verdict,    \* types: what the calls on them returned
    program,    \* codegen: the program handed to codegen_generate
    generator,  \* codegen: the CodeGenerator struct and the text written so far
    gpc         \* codegen: position inside codegen_generate

lexVars == <<source, lexer, lpc>>
drvVars == <<opts, drv>>
parVars == <<tokens, parser, ppc>>
semVars == <<ast, analyzer, spc>>
symVars == <<table, last>>
typVars == <<operands, verdict>>
genVars == <<program, generator, gpc>>

vars == <<source, lexer, lpc, opts, drv, tokens, parser, ppc, ast, analyzer, spc,
          table, last, operands, verdict, program, generator, gpc>>

\* the stages a specification does not exercise stay idle
LexIdle == source = <<>> /\ lexer = <<>> /\ lpc = "idle"
DrvIdle == opts = <<>> /\ drv = <<>>
ParIdle == tokens = <<>> /\ parser = <<>> /\ ppc = "idle"
SemIdle == ast = <<>> /\ analyzer = <<>> /\ spc = "idle"
SymIdle == table = <<>> /\ last = <<>>
TypIdle == operands = <<>> /\ verdict = <<>>
GenIdle == program = <<>> /\ generator = <<>> /\ gpc = "idle"

(***************************************************************************)
(* Bounds of the model.                                                    *)
(***************************************************************************)
MaxChunks == 3
MaxTokens == 4

(***************************************************************************)
(* Small helpers.                                                          *)
(***************************************************************************)
RECURSIVE SeqsUpTo(_, _)
SeqsUpTo(S, n) ==
    IF n = 0 THEN {<<>>}
    ELSE LET shorter == SeqsUpTo(S, n - 1)
         IN  shorter \cup {Append(s, x) : s \in {t \in shorter : Len(t) = n - 1}, x \in S}

RECURSIVE Flatten(_)
Flatten(ss) == IF ss = <<>> THEN <<>> ELSE Head(ss) \o Flatten(Tail(ss))

(***************************************************************************)
(* LEXER  (src/unnamed/part_003)                                           *)
(***************************************************************************)
NUL == "NUL"

LowerChars == {"a", "b", "c", "d", "e", "f", "g", "h", "i", "j", "k", "l", "m",
               "n", "o", "p", "q", "r", "s", "t", "u", "v", "w", "x", "y", "z"}
UpperChars == {"A", "B", "C", "D", "E", "F", "G", "H", "I", "J", "K", "L", "M",
               "N", "O", "P", "Q", "R", "S", "T", "U", "V", "W", "X", "Y", "Z"}
DigitChars == {"0", "1", "2", "3", "4", "5", "6", "7", "8", "9"}

is_alpha(c) == c \in LowerChars \/ c \in UpperChars \/ c = "_"
is_digit(c) == c \in DigitChars
is_alphanumeric(c) == is_alpha(c) \/ is_digit(c)

\* *lexer->current, the byte under the cursor (the terminator at the end)
ByteAt(src, i) == IF i < Len(src) THEN src[i + 1] ELSE NUL

lex_is_at_end(src, L) == ByteAt(src, L.current) = NUL

lex_peek(src, L) == ByteAt(src, L.current)

lex_peek_next(src, L) ==
    IF lex_is_at_end(src, L) THEN NUL ELSE ByteAt(src, L.current + 1)

\* a lexer whose advance forgets to reset the column at a newline
lex_advance_KeepsColumn(src, L) ==
    IF ByteAt(src, L.current) = "\n"
    THEN [L EXCEPT !.current = @ + 1, !.line = @ + 1, !.column = @ + 1]
    ELSE [L EXCEPT !.current = @ + 1, !.column = @ + 1]

\* advance: consume one byte, tracking line and column
lex_advance(src, L) ==
    IF ByteAt(src, L.current) = "\n"
    THEN [L EXCEPT !.current = @ + 1, !.line = @ + 1, !.column = 1]
    ELSE [L EXCEPT !.current = @ + 1, !.column = @ + 1]

\* match: consume the byte when it is the expected one
lex_match(src, L, expected) ==
    IF lex_is_at_end(src, L) THEN [ok |-> FALSE, L |-> L]
    ELSE IF ByteAt(src, L.current) # expected THEN [ok |-> FALSE, L |-> L]
    ELSE [ok |-> TRUE, L |-> lex_advance(src, L)]

RECURSIVE SkipLineComment(_, _)
SkipLineComment(src, L) ==
    IF lex_peek(src, L) # "\n" /\ ~lex_is_at_end(src, L)
    THEN SkipLineComment(src, lex_advance(src, L))
    ELSE L

RECURSIVE SkipBlockComment(_, _)
SkipBlockComment(src, L) ==
    IF lex_is_at_end(src, L) THEN L
    ELSE IF lex_peek(src, L) = "*" /\ lex_peek_next(src, L) = "/"
         THEN lex_advance(src, lex_advance(src, L))
         ELSE SkipBlockComment(src, lex_advance(src, L))

RECURSIVE skip_whitespace(_, _)
skip_whitespace(src, L) ==
    LET c == lex_peek(src, L)
    IN  IF c \in {" ", "\r", "\t", "\n"}
        THEN skip_whitespace(src, lex_advance(src, L))
        ELSE IF c = "/"
        THEN IF lex_peek_next(src, L) = "/"
             THEN skip_whitespace(src, SkipLineComment(src, L))
             ELSE IF lex_peek_next(src, L) = "*"
             THEN skip_whitespace(src,
                      SkipBlockComment(src, lex_advance(src, lex_advance(src, L))))
             ELSE L
        ELSE L

make_token_with_pos(L, type, start, line, column) ==
    [type |-> type, start |-> start, length |-> L.current - start,
     line |-> line, column |-> column, msg |-> "", char_value |-> NUL]

make_token(L, type, start) ==
    make_token_with_pos(L, type, start, L.line, L.column - (L.current - start))

\* the start of an error token points at its static message, not into the source
NotInSource == -1

\* strlen of the static diagnostic messages
MessageLength(message) ==
    CASE message = "Unterminated string" -> 19
      [] message = "Invalid character literal" -> 25
      [] message = "Unexpected character" -> 20

error_token(L, message) ==
    [type |-> "ERROR", start |-> NotInSource, length |-> MessageLength(message),
     line |-> L.line, column |-> L.column, msg |-> message, char_value |-> NUL]

\* the result of one scanner: the token and the lexer after it
Scanned(tok, L) == [tok |-> tok, L |-> L]

RECURSIVE StringBody(_, _)
StringBody(src, L) ==
    IF lex_peek(src, L) # "\"" /\ ~lex_is_at_end(src, L)
    THEN IF lex_peek(src, L) = "\\"
         THEN LET L1 == lex_advance(src, L)
              IN  StringBody(src, IF ~lex_is_at_end(src, L1) THEN lex_advance(src, L1) ELSE L1)
         ELSE StringBody(src, lex_advance(src, L))
    ELSE L

scan_string(src, L, start_line, start_column) ==
    LET start == L.current - 1
        L1 == StringBody(src, L)
    IN  IF lex_is_at_end(src, L1)
        THEN Scanned(error_token(L1, "Unterminated string"), L1)
        ELSE LET L2 == lex_advance(src, L1)
             IN  Scanned(make_token_with_pos(L2, "STRING_LITERAL", start, start_line, start_column), L2)

\* the byte an escape pair \x decodes to
EscapeValue(x) ==
    CASE x = "n" -> "\n"
      [] x = "t" -> "\t"
      [] x = "r" -> "\r"
      [] x = "0" -> NUL
      [] OTHER -> x

scan_char(src, L, start_line, start_column) ==
    LET start == L.current - 1
        L1 == IF lex_peek(src, L) = "\\"
              THEN LET La == lex_advance(src, L)
                   IN  IF ~lex_is_at_end(src, La) THEN lex_advance(src, La) ELSE La
              ELSE IF ~lex_is_at_end(src, L) THEN lex_advance(src, L) ELSE L
    IN  IF lex_peek(src, L1) # "'"
        THEN Scanned(error_token(L1, "Invalid character literal"), L1)
        ELSE LET L2 == lex_advance(src, L1)
                 tok == make_token_with_pos(L2, "CHAR_LITERAL", start, start_line, start_column)
                 val == IF tok.length = 3 THEN ByteAt(src, start + 1)
                        ELSE IF tok.length = 4 /\ ByteAt(src, start + 1) = "\\"
                             THEN EscapeValue(ByteAt(src, start + 2))
                             ELSE NUL
             IN  Scanned([tok EXCEPT !.char_value = val], L2)

RECURSIVE SkipDigits(_, _)
SkipDigits(src, L) ==
    IF is_digit(lex_peek(src, L)) THEN SkipDigits(src, lex_advance(src, L)) ELSE L

scan_number(src, L, start_line, start_column) ==
    LET start == L.current - 1
        L1 == SkipDigits(src, L)
        frac == lex_peek(src, L1) = "." /\ is_digit(lex_peek_next(src, L1))
        L2 == IF frac THEN SkipDigits(src, lex_advance(src, L1)) ELSE L1
        expo == lex_peek(src, L2) \in {"e", "E"}
        L3 == IF expo
              THEN LET La == lex_advance(src, L2)
                       Lb == IF lex_peek(src, La) \in {"+", "-"} THEN lex_advance(src, La) ELSE La
                   IN  SkipDigits(src, Lb)
              ELSE L2
    IN  Scanned(make_token_with_pos(L3, IF frac \/ expo THEN "FLOAT_LITERAL" ELSE "INT_LITERAL",
                                    start, start_line, start_column), L3)

\* the keyword table of identifier_type: <<spelling, token type>>
KeywordTable ==
    { <<<<"a","s">>, "AS">>,
      <<<<"b","o","o","l">>, "BOOL">>,
      <<<<"b","r","e","a","k">>, "BREAK">>,
      <<<<"c","h","a","r">>, "CHAR">>,
      <<<<"c","o","n","t","i","n","u","e">>, "CONTINUE">>,
      <<<<"e","l","s","e">>, "ELSE">>,
      <<<<"e","x","t","e","r","n">>, "EXTERN">>,
      <<<<"f","n">>, "FN">>,
      <<<<"f","o","r">>, "FOR">>,
      <<<<"f","3","2">>, "F32">>,
      <<<<"f","6","4">>, "F64">>,
      <<<<"f","a","l","s","e">>, "FALSE">>,
      <<<<"i","f">>, "IF">>,
      <<<<"i","n">>, "IN">>,
      <<<<"i","8">>, "I8">>,
      <<<<"i","1","6">>, "I16">>,
      <<<<"i","3","2">>, "I32">>,
      <<<<"i","6","4">>, "I64">>,
      <<<<"i","m","p","l">>, "IMPL">>,
      <<<<"i","n","c","l","u","d","e">>, "INCLUDE">>,
      <<<<"l","e","t">>, "LET">>,
      <<<<"l","o","o","p">>, "LOOP">>,
      <<<<"m","u","t">>, "MUT">>,
      <<<<"r","e","t","u","r","n">>, "RETURN">>,
      <<<<"s","t","r">>, "STR">>,
      <<<<"s","t","r","u","c","t">>, "STRUCT">>,
      <<<<"t","r","u","e">>, "TRUE">>,
      <<<<"u","8">>, "U8">>,
      <<<<"u","1","6">>, "U16">>,
      <<<<"u","3","2">>, "U32">>,
      <<<<"u","6","4">>, "U64">>,
      <<<<"w","h","i","l","e">>, "WHILE">> }

identifier_type(word) ==
    IF \E k \in KeywordTable : k[1] = word
    THEN (CHOOSE k \in KeywordTable : k[1] = word)[2]
    ELSE "IDENTIFIER"

RECURSIVE SkipAlnum(_, _)
SkipAlnum(src, L) ==
    IF is_alphanumeric(lex_peek(src, L)) THEN SkipAlnum(src, lex_advance(src, L)) ELSE L

scan_identifier(src, L, start_line, start_column) ==
    LET start == L.current - 1
        L1 == SkipAlnum(src, L)
        word == SubSeq(src, start + 1, L1.current)
    IN  Scanned(make_token_with_pos(L1, identifier_type(word), start, start_line, start_column), L1)

\* a one-byte token, or the two-byte one when the next byte is `second`
OneOrTwo(src, L, start, line, column, second, two, one) ==
    LET m == lex_match(src, L, second)
    IN  IF m.ok THEN Scanned(make_token_with_pos(m.L, two, start, line, column), m.L)
        ELSE Scanned(make_token_with_pos(L, one, start, line, column), L)

SingleByteTokens ==
    [c \in {"(", ")", "{", "}", "[", "]", ";", ",", "%", "^"} |->
        CASE c = "(" -> "LPAREN"   [] c = ")" -> "RPAREN"
          [] c = "{" -> "LBRACE"   [] c = "}" -> "RBRACE"
          [] c = "[" -> "LBRACKET" [] c = "]" -> "RBRACKET"
          [] c = ";" -> "SEMICOLON" [] c = "," -> "COMMA"
          [] c = "%" -> "PERCENT"  [] c = "^" -> "XOR"]

scan_token(src, L0) ==
    LET Lw == skip_whitespace(src, L0)
    IN  IF lex_is_at_end(src, Lw)
        THEN Scanned(make_token(Lw, "EOF", Lw.current), Lw)
        ELSE
        LET start == Lw.current
            start_column == Lw.column
            start_line == Lw.line
            c == ByteAt(src, Lw.current)
            L == lex_advance(src, Lw)
            Tok(type) == Scanned(make_token_with_pos(L, type, start, start_line, start_column), L)
            Two(second, two, one) == OneOrTwo(src, L, start, start_line, start_column, second, two, one)
        IN  IF is_alpha(c) THEN scan_identifier(src, L, start_line, start_column)
            ELSE IF is_digit(c) THEN scan_number(src, L, start_line, start_column)
            ELSE IF c \in DOMAIN SingleByteTokens THEN Tok(SingleByteTokens[c])
            ELSE CASE c = ":" -> Two(":", "DOUBLE_COLON", "COLON")
                   [] c = "." -> Two(".", "DOT_DOT", "DOT")
                   [] c = "+" -> Two("=", "PLUS_EQ", "PLUS")
                   [] c = "-" ->
                        LET m == lex_match(src, L, "=")
                        IN  IF m.ok
                            THEN Scanned(make_token_with_pos(m.L, "MINUS_EQ", start, start_line, start_column), m.L)
                            ELSE Two(">", "ARROW", "MINUS")
                   [] c = "*" -> Two("=", "STAR_EQ", "STAR")
                   [] c = "/" -> Two("=", "SLASH_EQ", "SLASH")
                   [] c = "!" -> Two("=", "NOT_EQ", "NOT")
                   [] c = "=" -> Two("=", "EQ_EQ", "EQ")
                   [] c = "<" ->
                        LET m == lex_match(src, L, "=")
                        IN  IF m.ok
                            THEN Scanned(make_token_with_pos(m.L, "LT_EQ", start, start_line, start_column), m.L)
                            ELSE Two("<", "LT_LT", "LT")
                   [] c = ">" ->
                        LET m == lex_match(src, L, "=")
                        IN  IF m.ok
                            THEN Scanned(make_token_with_pos(m.L, "GT_EQ", start, start_line, start_column), m.L)
                            ELSE Two(">", "GT_GT", "GT")
                   [] c = "&" -> Two("&", "AND_AND", "AND")
                   [] c = "|" -> Two("|", "OR_OR", "OR")
                   [] c = "\"" -> scan_string(src, L, start_line, start_column)
                   [] c = "'" -> scan_char(src, L, start_line, start_column)
                   [] OTHER -> Scanned(error_token(L, "Unexpected character"), L)

\* lexer_create
lexer_create == [current |-> 0, line |-> 1, column |-> 1, tokens |-> <<>>]

add_token(L, token) == [L EXCEPT !.tokens = Append(@, token)]

\* the source fragments the inputs are assembled from
Chunks ==
    { <<"a">>, <<"1">>, <<" ">>, <<"\n">>, <<"/">>, <<"*">>, <<"\"">>, <<"'">>,
      <<"\\">>, <<"@">>, <<"/", "*">>, <<"*", "/">>, <<"\"", "\n", "\"">>,
      <<"f", "n">> }

Sources == {Flatten(cs) : cs \in SeqsUpTo(Chunks, MaxChunks)}

LexInit ==
    /\ source \in Sources
    /\ lexer = lexer_create
    /\ lpc = "loop"
    /\ DrvIdle /\ ParIdle /\ SemIdle /\ SymIdle /\ TypIdle /\ GenIdle

\* a scanning loop that goes on after an ERROR token
ScanLoopIter_NoBreak ==
    /\ lpc = "loop"
    /\ ~lex_is_at_end(source, lexer)
    /\ LET r == scan_token(source, lexer)
       IN  lexer' = add_token([lexer EXCEPT !.current = r.L.current, !.line = r.L.line,
                                            !.column = r.L.column], r.tok)
    /\ lpc' = "loop"
    /\ UNCHANGED <<source, drvVars, parVars, semVars, symVars, typVars, genVars>>

\* one iteration of the loop of lexer_scan_tokens
ScanLoopIter ==
    /\ lpc = "loop"
    /\ ~lex_is_at_end(source, lexer)
    /\ LET r == scan_token(source, lexer)
           L1 == add_token([lexer EXCEPT !.current = r.L.current, !.line = r.L.line,
                                         !.column = r.L.column], r.tok)
       IN  /\ lexer' = L1
           /\ lpc' = IF r.tok.type = "ERROR" THEN "post" ELSE "loop"
    /\ UNCHANGED <<source, drvVars, parVars, semVars, symVars, typVars, genVars>>

\* the loop condition fails
ScanLoopExit ==
    /\ lpc = "loop"
    /\ lex_is_at_end(source, lexer)
    /\ lpc' = "post"
    /\ UNCHANGED <<source, lexer, drvVars, parVars, semVars, symVars, typVars, genVars>>

\* a lexer_scan_tokens that appends EOF without looking at the last token
ScanAppendEof_Always ==
    /\ lpc = "post"
    /\ lexer' = add_token(lexer, make_token(lexer, "EOF", lexer.current))
    /\ lpc' = "done"
    /\ UNCHANGED <<source, drvVars, parVars, semVars, symVars, typVars, genVars>>

\* after the loop: append EOF unless the last token is one, and return
ScanAppendEof ==
    /\ lpc = "post"
    /\ lexer' = IF Len(lexer.tokens) = 0 \/ lexer.tokens[Len(lexer.tokens)].type # "EOF"
                THEN add_token(lexer, make_token(lexer, "EOF", lexer.current))
                ELSE lexer
    /\ lpc' = "done"
    /\ UNCHANGED <<source, drvVars, parVars, semVars, symVars, typVars, genVars>>

LexNext == ScanLoopIter \/ ScanLoopExit \/ ScanAppendEof

SpecLexer == LexInit /\ [][LexNext]_vars

(***************************************************************************)
(* Lexer properties.                                                       *)
(***************************************************************************)
TokenIndices == 1..Len(lexer.tokens)

EofIndices == {i \in TokenIndices : lexer.tokens[i].type = "EOF"}

ErrorIndices == {i \in TokenIndices : lexer.tokens[i].type = "ERROR"}

ExactlyOneEofLast == EofIndices = {Len(lexer.tokens)} /\ Len(lexer.tokens) >= 1

\* what is left for lexer_scan_tokens to do: bytes to consume, then steps to return
LexPcRank == CASE lpc = "loop" -> 2 [] lpc = "post" -> 1 [] OTHER -> 0

LexMeasure == 2 * (Len(source) - lexer.current) + LexPcRank

\* C6: lexer_scan_tokens terminates on every source: every step strictly
\* decreases a measure that never goes below zero, a step is possible at
\* every position but the return, and the returned sequence has exactly one
\* EOF token, the last.
C6_Terminates ==
    [][/\ LexMeasure' < LexMeasure
       /\ LexMeasure' >= 0
       /\ lpc' \in {"loop", "post", "done"}
       /\ (lpc' = "done" => ExactlyOneEofLast')]_vars

\* an input that is only an unterminated block comment has been scanned
C6_Witness ==
    /\ lpc = "done"
    /\ Len(source) >= 3
    /\ source[1] = "/" /\ source[2] = "*"
    /\ lexer.current = Len(source)
    /\ Len(lexer.tokens) = 1

\* bytes that can start a lexical error: a quote or a byte no token starts with
ErrorTriggers == {"\"", "'", "@", "\\"}

NewlinesBefore(src, off) == Cardinality({i \in 1..off : src[i] = "\n"})

LastNewlineBefore(src, off) ==
    LET nl == {i \in 1..off : src[i] = "\n"}
    IN  IF nl = {} THEN 0 ELSE CHOOSE i \in nl : \A j \in nl : j <= i

\* C8: every non-error token carries line = 1 + newlines before its first
\* byte and column = 1 + bytes since the preceding newline or start of input.
C8_Positions ==
    \A i \in TokenIndices :
        LET t == lexer.tokens[i]
        IN  t.type # "ERROR" =>
              /\ t.line = 1 + NewlinesBefore(source, t.start)
              /\ t.column = 1 + (t.start - LastNewlineBefore(source, t.start))
              /\ t.line >= 1 /\ t.column >= 1

\* a token that follows a multi-line string literal on the string's last line
C8_Witness ==
    \E i \in TokenIndices :
        /\ i >= 2
        /\ lexer.tokens[i - 1].type = "STRING_LITERAL"
        /\ lexer.tokens[i].type \notin {"ERROR", "EOF"}
        /\ lexer.tokens[i].line = 2
        /\ lexer.tokens[i].column >= 2


(***************************************************************************)
(* DRIVER  (src/unnamed/part_002 compile, src/src/main.c main)             *)
(*                                                                         *)
(* The stages are seen from outside: each one runs and reports a result.   *)
(* drv.prog says which of the two drivers of the repository is running.    *)
(***************************************************************************)
OptionFlags == {"print_tokens", "print_ast", "print_semantic", "print_c",
                "check_only", "compile_exe", "keep_c_file", "output_file"}

\* the flags main.c reads from its command line
MainFlags == {"compile_exe", "output_file"}

drv_start(prog) ==
    [prog |-> prog, pc |-> "lex", ran |-> {}, lexer_error |-> FALSE,
     parse_error |-> FALSE, semantic_ok |-> FALSE, c_text |-> FALSE,
     token_frees |-> 0, exit |-> -1]

DrvInit ==
    /\ \E prog \in {"jfmc", "main"} :
         /\ drv = drv_start(prog)
         /\ opts \in [OptionFlags -> BOOLEAN]
         /\ prog = "main" => \A f \in OptionFlags \ MainFlags : ~opts[f]
    /\ LexIdle /\ ParIdle /\ SemIdle /\ SymIdle /\ TypIdle /\ GenIdle

\* return from the driver with an exit status
drv_return(d, status) == [d EXCEPT !.pc = "done", !.exit = status]

\* the cleanup of compile(): lexer_destroy(lexer) frees lexer->tokens,
\* then free(tokens) frees the same array
compile_cleanup(d, status) == drv_return([d EXCEPT !.token_frees = @ + 2], status)

\* the cleanup of main(): lexer_destroy(lexer) only
main_cleanup(d, status) == drv_return([d EXCEPT !.token_frees = @ + 1], status)

\* compile(): lexical analysis, the scan for an ERROR token, --tokens
CompileLex ==
    /\ drv.prog = "jfmc" /\ drv.pc = "lex"
    /\ \E had_lexer_error \in BOOLEAN :
         LET d == [drv EXCEPT !.ran = @ \cup {"lexer"}, !.lexer_error = had_lexer_error]
         IN  drv' = IF had_lexer_error THEN compile_cleanup(d, 1)
                    ELSE IF /\ opts["print_tokens"]
                            /\ ~opts["print_ast"] /\ ~opts["print_semantic"]
                            /\ ~opts["print_c"] /\ ~opts["check_only"]
                         THEN compile_cleanup(d, 0)
                         ELSE [d EXCEPT !.pc = "parse"]
    /\ UNCHANGED <<opts, lexVars, parVars, semVars, symVars, typVars, genVars>>

\* compile(): parsing; only a null AST stops it, and parser_parse always
\* returns the Program node, so parser->had_error goes unread
CompileParse ==
    /\ drv.prog = "jfmc" /\ drv.pc = "parse"
    /\ \E had_error \in BOOLEAN :
         LET d == [drv EXCEPT !.ran = @ \cup {"parser"}, !.parse_error = had_error]
         IN  drv' = IF /\ opts["print_ast"]
                       /\ ~opts["print_semantic"] /\ ~opts["print_c"] /\ ~opts["check_only"]
                    THEN compile_cleanup(d, 0)
                    ELSE [d EXCEPT !.pc = "semantic"]
    /\ UNCHANGED <<opts, lexVars, parVars, semVars, symVars, typVars, genVars>>

\* compile(): semantic analysis, --semantic, --check
CompileSemantic ==
    /\ drv.prog = "jfmc" /\ drv.pc = "semantic"
    /\ \E semantic_ok \in BOOLEAN :
         LET d == [drv EXCEPT !.ran = @ \cup {"semantic"}, !.semantic_ok = semantic_ok]
         IN  drv' = IF ~semantic_ok THEN compile_cleanup(d, 1)
                    ELSE IF opts["print_semantic"] /\ ~opts["print_c"] /\ ~opts["check_only"]
                         THEN compile_cleanup(d, 0)
                    ELSE IF opts["check_only"] THEN compile_cleanup(d, 0)
                    ELSE [d EXCEPT !.pc = "codegen"]
    /\ UNCHANGED <<opts, lexVars, parVars, semVars, symVars, typVars, genVars>>

\* compile(): open the C file, generate, optionally run gcc, clean up
CompileCodegen ==
    /\ drv.prog = "jfmc" /\ drv.pc = "codegen"
    /\ \E opened \in BOOLEAN, codegen_ok \in BOOLEAN, cc_ok \in BOOLEAN :
         LET d == [drv EXCEPT !.ran = @ \cup {"codegen"}, !.c_text = TRUE]
         IN  drv' = IF ~opened THEN compile_cleanup(drv, 1)
                    ELSE IF ~codegen_ok THEN compile_cleanup(d, 1)
                    ELSE IF opts["compile_exe"] /\ ~cc_ok THEN compile_cleanup(d, 1)
                    ELSE compile_cleanup(d, 0)
    /\ UNCHANGED <<opts, lexVars, parVars, semVars, symVars, typVars, genVars>>

\* main(): lexical analysis and the scan for ERROR tokens
MainLex ==
    /\ drv.prog = "main" /\ drv.pc = "lex"
    /\ \E lexer_error \in BOOLEAN :
         LET d == [drv EXCEPT !.ran = @ \cup {"lexer"}, !.lexer_error = lexer_error]
         IN  drv' = IF lexer_error THEN main_cleanup(d, 1) ELSE [d EXCEPT !.pc = "parse"]
    /\ UNCHANGED <<opts, lexVars, parVars, semVars, symVars, typVars, genVars>>

\* main(): parsing, stopping on parser->had_error
MainParse ==
    /\ drv.prog = "main" /\ drv.pc = "parse"
    /\ \E had_error \in BOOLEAN :
         LET d == [drv EXCEPT !.ran = @ \cup {"parser"}, !.parse_error = had_error]
         IN  drv' = IF had_error THEN main_cleanup(d, 1) ELSE [d EXCEPT !.pc = "semantic"]
    /\ UNCHANGED <<opts, lexVars, parVars, semVars, symVars, typVars, genVars>>

\* main(): semantic analysis
MainSemantic ==
    /\ drv.prog = "main" /\ drv.pc = "semantic"
    /\ \E semantic_ok \in BOOLEAN :
         LET d == [drv EXCEPT !.ran = @ \cup {"semantic"}, !.semantic_ok = semantic_ok]
         IN  drv' = IF ~semantic_ok THEN main_cleanup(d, 1) ELSE [d EXCEPT !.pc = "codegen"]
    /\ UNCHANGED <<opts, lexVars, parVars, semVars, symVars, typVars, genVars>>

\* main(): open the output, generate, optionally run gcc, clean up; with
\* neither -o nor -e it compiles to an executable through a temporary file
MainCodegen ==
    /\ drv.prog = "main" /\ drv.pc = "codegen"
    /\ \E opened \in BOOLEAN, cc_ok \in BOOLEAN :
         LET output_file == opts["output_file"] \/ ~opts["compile_exe"]
             compile_to_exe == opts["compile_exe"] \/ ~opts["output_file"]
             d == [drv EXCEPT !.ran = @ \cup {"codegen"}, !.c_text = TRUE]
         IN  drv' = IF output_file /\ ~opened THEN main_cleanup(drv, 1)
                    ELSE IF compile_to_exe /\ output_file /\ ~cc_ok THEN main_cleanup(d, 1)
                    ELSE main_cleanup(d, 0)
    /\ UNCHANGED <<opts, lexVars, parVars, semVars, symVars, typVars, genVars>>

DrvNext ==
    \/ CompileLex \/ CompileParse \/ CompileSemantic \/ CompileCodegen
    \/ MainLex \/ MainParse \/ MainSemantic \/ MainCodegen

SpecDriver == DrvInit /\ [][DrvNext]_vars

\* C1: a later stage runs only if every earlier stage reported no error: no
\* parser after a lexical error, no semantic analysis or code generation
\* after a parse error, no code generation or C text after a failed analysis.
C1_StagesGated ==
    /\ "parser" \in drv.ran => ~drv.lexer_error
    /\ "semantic" \in drv.ran => ~drv.parse_error
    /\ "codegen" \in drv.ran => ~drv.parse_error /\ drv.semantic_ok
    /\ drv.c_text => drv.semantic_ok

(***************************************************************************)
(* PARSER  (src/src/parser.c)                                              *)
(*                                                                         *)
(* tokens is the array of token types handed to parser_create; a parsing   *)
(* function takes the Parser struct P and returns it as the function       *)
(* leaves it, with the kind of the node it built where a caller reads it.  *)
(* P.trace logs diagnostics and synchronize runs in the order they happen; *)
(* P.ub collects the undefined reads the parse performed.                  *)
(***************************************************************************)
MAX_CHAIN_DEPTH == 100
MAX_STATEMENTS == 10000
MAX_FIELDS == 1000
MAX_IMPL_FUNCTIONS == 500
MAX_DECLARATIONS == 50000

\* type_from_token: the tokens that name a primitive type
PrimitiveTypeTokens == {"I8", "I16", "I32", "I64", "U8", "U16", "U32", "U64",
                        "F32", "F64", "BOOL", "CHAR", "STR"}

\* the tokens synchronize stops in front of
SyncTokens == {"FN", "LET", "IF", "WHILE", "FOR", "LOOP", "RETURN", "BREAK",
               "CONTINUE", "STRUCT", "IMPL"}

p_peek(P) == tokens[P.current + 1]

p_is_at_end(P) == p_peek(P) = "EOF"

\* previous(): tokens[current - 1]; with current = 0 this reads the memory in
\* front of the array, whose content P.underflow stands for
p_previous(P) == IF P.current = 0 THEN P.underflow ELSE tokens[P.current]

p_advance(P) == IF tokens[P.current + 1] # "EOF" THEN [P EXCEPT !.current = @ + 1] ELSE P

\* check(): false at EOF, else whether the current token has the type
p_check(P, type) == tokens[P.current + 1] # "EOF" /\ tokens[P.current + 1] = type

\* check() for any of several types, as in match(a) || match(b)
p_check_any(P, types) == tokens[P.current + 1] # "EOF" /\ tokens[P.current + 1] \in types

\* match(): the parser after an optional token
p_match(P, type) == IF p_check(P, type) THEN p_advance(P) ELSE P

error_at(P, token, message) ==
    IF P.panic_mode THEN P
    ELSE [P EXCEPT !.panic_mode = TRUE, !.had_error = TRUE,
                   !.errors = Append(@, [message |-> message, token |-> token]),
                   !.trace = Append(@, [ev |-> "diag", from |-> token, to |-> token])]

error_at_current(P, message) == error_at(P, P.current, message)

\* consume(): ok says whether a token was returned
consume(P, type, message) ==
    IF p_check(P, type) THEN [ok |-> TRUE, P |-> p_advance(P)]
    ELSE [ok |-> FALSE, P |-> error_at_current(P, message)]

Consumed(P, type, message) == consume(P, type, message).P

RECURSIVE SyncLoop(_)
SyncLoop(P) ==
    IF p_is_at_end(P) THEN P
    ELSE LET P1 == IF P.current = 0 THEN [P EXCEPT !.ub = @ \cup {"oob_read"}] ELSE P
         IN  IF p_previous(P1) = "SEMICOLON" THEN P1
             ELSE IF p_peek(P1) \in SyncTokens THEN P1
             ELSE SyncLoop(p_advance(P1))

synchronize(P) ==
    LET P1 == SyncLoop([P EXCEPT !.panic_mode = FALSE])
    IN  [P1 EXCEPT !.trace = Append(@, [ev |-> "sync", from |-> P.current, to |-> P1.current])]

\* what an expression function returns: the parser and the node's kind
Node(P, kind) == [P |-> P, node |-> kind]

LiteralTokens == {"TRUE", "FALSE", "INT_LITERAL", "FLOAT_LITERAL",
                  "STRING_LITERAL", "CHAR_LITERAL"}

\* the level of a binary operator token: factor (1), term (2), shift (3),
\* cast (4), comparison (5), equality (6), bitwise_and (7), bitwise_xor (8),
\* bitwise_or (9), logical_and (10), logical_or (11); 0 for any other token
LevelOf(type) ==
    CASE type \in {"STAR", "SLASH", "PERCENT"} -> 1
      [] type \in {"PLUS", "MINUS"} -> 2
      [] type \in {"LT_LT", "GT_GT"} -> 3
      [] type = "AS" -> 4
      [] type \in {"LT", "GT", "LT_EQ", "GT_EQ"} -> 5
      [] type \in {"EQ_EQ", "NOT_EQ"} -> 6
      [] type = "AND" -> 7
      [] type = "XOR" -> 8
      [] type = "OR" -> 9
      [] type = "AND_AND" -> 10
      [] type = "OR_OR" -> 11
      [] OTHER -> 0

AssignmentOps == {"EQ", "PLUS_EQ", "MINUS_EQ", "STAR_EQ", "SLASH_EQ"}

\* expression, statement, declaration and block_statement call each other
\* through the whole grammar; Parse(f, P) is the call of one of them by name
RECURSIVE Parse(_, _)

RECURSIVE StructFields(_), ArrayElements(_), CallChain(_, _, _), CallArgs(_),
          unary(_), Level(_, _), Climb(_, _, _), assignment(_), parse_type(_),
          BlockLoop(_, _), if_statement(_), ParamList(_), StructFieldList(_, _),
          ImplLoop(_, _, _)

\* parse_type: ok is false when it returns NULL
parse_type(P) ==
    IF p_check(P, "AND")
    THEN [ok |-> TRUE, P |-> parse_type(p_match(p_advance(P), "MUT")).P]
    ELSE IF p_check(P, "STAR")
    THEN [ok |-> TRUE, P |-> parse_type(p_advance(P)).P]
    ELSE IF p_check(P, "LBRACKET")
    THEN LET P1 == p_advance(P)
         IN  IF p_peek(P1) \in PrimitiveTypeTokens \/ p_check(P1, "IDENTIFIER")
             THEN LET P2 == p_advance(P1)
                      P3 == Consumed(P2, "SEMICOLON", "Expected ';' in array type")
                      P4 == Consumed(P3, "INT_LITERAL", "Expected array size")
                  IN  [ok |-> TRUE,
                       P |-> Consumed(P4, "RBRACKET", "Expected ']' after array type")]
             ELSE [ok |-> FALSE, P |-> error_at_current(P1, "Expected element type in array")]
    ELSE IF p_peek(P) \in PrimitiveTypeTokens THEN [ok |-> TRUE, P |-> p_advance(P)]
    ELSE IF p_check(P, "IDENTIFIER") THEN [ok |-> TRUE, P |-> p_advance(P)]
    ELSE [ok |-> FALSE, P |-> error_at_current(P, "Expected type")]

\* the field loop of a struct literal
StructFields(P) ==
    IF ~p_check(P, "RBRACE") /\ ~p_is_at_end(P)
    THEN LET f == consume(P, "IDENTIFIER", "Expected field name")
         IN  IF ~f.ok THEN f.P
             ELSE LET P1 == Consumed(f.P, "COLON", "Expected ':' after field name")
                      P2 == Parse("expression", P1).P
                  IN  IF p_check(P2, "COMMA") THEN StructFields(p_advance(P2)) ELSE P2
    ELSE P

\* the element loop of an array literal
ArrayElements(P) ==
    IF ~p_check(P, "RBRACKET") /\ ~p_is_at_end(P)
    THEN LET P1 == Parse("expression", P).P
         IN  IF p_check(P1, "COMMA") THEN ArrayElements(p_advance(P1)) ELSE P1
    ELSE P

\* whether an identifier begins a struct literal: `{` then `}` or `name :`
IsStructLiteral(P1) ==
    /\ p_check(P1, "LBRACE")
    /\ LET P2 == p_advance(P1)
       IN  \/ p_check(P2, "RBRACE")
           \/ p_check(P2, "IDENTIFIER") /\ p_check(p_advance(P2), "COLON")

primary(P) ==
    LET t == p_peek(P)
    IN  CASE t = "ERROR" ->
               Node(p_advance(error_at_current(P, "lexical error")), "NULL")
          [] t \in LiteralTokens -> Node(p_advance(P), "LITERAL")
          [] t = "IDENTIFIER" ->
               LET P1 == p_advance(P)
               IN  IF IsStructLiteral(P1)
                   THEN Node(Consumed(StructFields(p_advance(P1)), "RBRACE",
                                      "Expected '}' after struct fields"), "STRUCT_LITERAL")
                   ELSE Node(P1, "IDENTIFIER")
          [] t = "LBRACKET" ->
               Node(Consumed(ArrayElements(p_advance(P)), "RBRACKET",
                             "Expected ']' after array elements"), "ARRAY_LITERAL")
          [] t = "LPAREN" ->
               LET r == Parse("expression", p_advance(P))
               IN  Node(Consumed(r.P, "RPAREN", "Expected ')' after expression"), r.node)
          [] OTHER -> Node(error_at_current(P, "Expected expression"), "NULL")

\* the do-while over the arguments of a call
CallArgs(P) ==
    LET P1 == Parse("expression", P).P
    IN  IF p_check(P1, "COMMA") THEN CallArgs(p_advance(P1)) ELSE P1

\* what reading expr->data.identifier.name does for the operand of `::`
ReadOperandName(P, node) ==
    IF node = "IDENTIFIER" THEN P
    ELSE IF node = "NULL" THEN [P EXCEPT !.ub = @ \cup {"null_deref"}]
    ELSE [P EXCEPT !.ub = @ \cup {"wild_read"}]

\* the postfix loop of call()
CallChain(P, node, iteration_count) ==
    LET t == p_peek(P)
        n == iteration_count + 1
    IN  IF n > MAX_CHAIN_DEPTH
        THEN Node(error_at_current(P, "Expression chain too deep (possible infinite loop)"),
                  node)
        ELSE CASE t = "LPAREN" ->
                    LET P1 == p_advance(P)
                        P2 == IF ~p_check(P1, "RPAREN") THEN CallArgs(P1) ELSE P1
                    IN  CallChain(Consumed(P2, "RPAREN", "Expected ')' after arguments"),
                                  "CALL", n)
               [] t = "LBRACKET" ->
                    CallChain(Consumed(Parse("expression", p_advance(P)).P, "RBRACKET",
                                       "Expected ']' after index"), "INDEX", n)
               [] t = "DOT" ->
                    CallChain(Consumed(p_advance(P), "IDENTIFIER",
                                       "Expected field name after '.'"), "FIELD", n)
               [] t = "DOUBLE_COLON" ->
                    LET m == consume(p_advance(P), "IDENTIFIER",
                                     "Expected method name after '::'")
                    IN  IF m.ok THEN CallChain(ReadOperandName(m.P, node), "IDENTIFIER", n)
                        ELSE CallChain(m.P, node, n)
               [] OTHER -> Node(P, node)

call(P) == LET r == primary(P) IN CallChain(r.P, r.node, 0)

unary(P) ==
    LET t == p_peek(P)
    IN  CASE t \in {"NOT", "MINUS", "STAR"} -> Node(unary(p_advance(P)).P, "UNARY_OP")
          [] t = "AND" -> Node(unary(p_match(p_advance(P), "MUT")).P, "UNARY_OP")
          [] OTHER -> call(P)

\* The eleven functions factor .. logical_or are one loop each: parse an
\* operand with the function one level down, then, while the next token is
\* an operator of this level, take it and parse another operand one level
\* down (cast takes `as` and a type, and returns at once when no type
\* follows).  Level(P, k) is the function of level k.  Climb runs the loops
\* of levels floor..k on an operand already parsed: the loops below the
\* level of the next token fall through without effect, so it goes to that
\* level's loop directly.
Climb(r, floor, k) ==
    LET j == IF p_is_at_end(r.P) THEN 0 ELSE LevelOf(p_peek(r.P))
    IN  IF j < floor \/ j > k THEN r
        ELSE IF j = 4
        THEN LET t == parse_type(p_advance(r.P))
             IN  IF ~t.ok
                 THEN Climb(Node(error_at_current(t.P, "Expected type after 'as'"), r.node),
                            5, k)
                 ELSE Climb(Node(t.P, "CAST"), 4, k)
        ELSE Climb(Node(Level(p_advance(r.P), j - 1).P, "BINARY_OP"), j, k)

Level(P, k) == Climb(unary(P), 1, k)

\* Level(P, 1) is factor, then term, shift, cast, comparison, equality,
\* bitwise_and, bitwise_xor, bitwise_or, logical_and; Level(P, 11) is
logical_or(P) == Level(P, 11)

assignment(P) ==
    LET r == logical_or(P)
    IN  IF p_check_any(r.P, AssignmentOps)
        THEN Node(assignment(p_advance(r.P)).P, "ASSIGNMENT")
        ELSE r

\* one pass of the loop of block_statement: cont says whether the loop goes on
BlockIteration(P) ==
    IF p_check_any(P, {"LET", "FN", "STRUCT"})
    THEN [cont |-> TRUE, P |-> Parse("declaration", P)]
    ELSE IF p_check_any(P, {"IF", "WHILE", "FOR", "LOOP", "RETURN", "BREAK",
                            "CONTINUE", "LBRACE"})
    THEN [cont |-> TRUE, P |-> Parse("statement", P)]
    ELSE LET P1 == Parse("expression", P).P
         IN  IF p_check(P1, "SEMICOLON") THEN [cont |-> TRUE, P |-> p_advance(P1)]
             ELSE IF p_check(P1, "RBRACE") THEN [cont |-> FALSE, P |-> P1]
             ELSE [cont |-> TRUE,
                   P |-> error_at_current(P1, "Expected ';' or '}' after expression")]

\* the loop of block_statement.  A pass that leaves the parser as it found
\* it is followed by identical passes until loop_guard exceeds
\* MAX_STATEMENTS, so the guard is set to its limit at once.
BlockLoop(P, loop_guard) ==
    IF ~p_check(P, "RBRACE") /\ ~p_is_at_end(P)
    THEN IF loop_guard + 1 > MAX_STATEMENTS
         THEN error_at_current([P EXCEPT !.guard_trips = @ + 1],
                               "Block too large or parser stuck in loop")
         ELSE LET it == BlockIteration(P)
              IN  IF ~it.cont THEN it.P
                  ELSE IF it.P = P THEN BlockLoop(P, MAX_STATEMENTS)
                  ELSE BlockLoop(it.P, loop_guard + 1)
    ELSE P

block_statement(P) == Consumed(BlockLoop(P, 0), "RBRACE", "Expected '}' after block")

if_statement(P) ==
    LET P1 == Consumed(P, "LPAREN", "Expected '(' after 'if'")
        P2 == Parse("expression", P1).P
        P3 == Consumed(P2, "RPAREN", "Expected ')' after if condition")
        P4 == Consumed(P3, "LBRACE", "Expected '{' after if condition")
        P5 == Parse("block_statement", P4)
    IN  IF p_check(P5, "ELSE")
        THEN LET P6 == p_advance(P5)
             IN  IF p_check(P6, "IF") THEN if_statement(p_advance(P6))
                 ELSE Parse("block_statement", Consumed(P6, "LBRACE", "Expected '{' after 'else'"))
        ELSE P5

while_statement(P) ==
    LET P1 == Consumed(P, "LPAREN", "Expected '(' after 'while'")
        P2 == Parse("expression", P1).P
        P3 == Consumed(P2, "RPAREN", "Expected ')' after while condition")
        P4 == Consumed(P3, "LBRACE", "Expected '{' after while condition")
    IN  Parse("block_statement", P4)

for_statement(P) ==
    LET P1 == Consumed(P, "IDENTIFIER", "Expected iterator name")
        P2 == IF p_check(P1, "COLON") THEN parse_type(p_advance(P1)).P ELSE P1
        P3 == Consumed(P2, "IN", "Expected 'in' in for loop")
        P4 == Parse("expression", P3).P
        P5 == Consumed(P4, "DOT_DOT", "Expected '..' in for range")
        P6 == Parse("expression", P5).P
        P7 == Consumed(P6, "LBRACE", "Expected '{' after for header")
    IN  Parse("block_statement", P7)

loop_statement(P) == Parse("block_statement", Consumed(P, "LBRACE", "Expected '{' after 'loop'"))

return_statement(P) ==
    LET P1 == IF p_check(P, "SEMICOLON") THEN P ELSE Parse("expression", P).P
    IN  Consumed(P1, "SEMICOLON", "Expected ';' after return value")

break_statement(P) == Consumed(P, "SEMICOLON", "Expected ';' after 'break'")

continue_statement(P) == Consumed(P, "SEMICOLON", "Expected ';' after 'continue'")

let_statement(P) ==
    LET P1 == p_match(P, "MUT")
        P2 == Consumed(P1, "IDENTIFIER", "Expected variable name")
        P3 == IF p_check(P2, "COLON") THEN parse_type(p_advance(P2)).P ELSE P2
        P4 == IF p_check(P3, "EQ") THEN Parse("expression", p_advance(P3)).P ELSE P3
    IN  Consumed(P4, "SEMICOLON", "Expected ';' after variable declaration")

expression_statement(P) ==
    LET P1 == Parse("expression", P).P
    IN  IF p_check(P1, "SEMICOLON")
        THEN Consumed(P1, "SEMICOLON", "Expected ';' after expression")
        ELSE P1

statement(P) ==
    LET t == p_peek(P)
    IN  CASE t = "IF" -> if_statement(p_advance(P))
          [] t = "WHILE" -> while_statement(p_advance(P))
          [] t = "FOR" -> for_statement(p_advance(P))
          [] t = "LOOP" -> loop_statement(p_advance(P))
          [] t = "RETURN" -> return_statement(p_advance(P))
          [] t = "BREAK" -> break_statement(p_advance(P))
          [] t = "CONTINUE" -> continue_statement(p_advance(P))
          [] t = "LBRACE" -> Parse("block_statement", p_advance(P))
          [] OTHER -> expression_statement(P)

\* the do-while over the parameters of a function
ParamList(P) ==
    LET P1 == Consumed(P, "IDENTIFIER", "Expected parameter name")
        P2 == Consumed(P1, "COLON", "Expected ':' after parameter name")
        P3 == parse_type(P2).P
    IN  IF p_check(P3, "COMMA") THEN ParamList(p_advance(P3)) ELSE P3

\* name, parameters and return type, shared by fn and extern fn
FunctionSignature(P) ==
    LET P1 == Consumed(P, "IDENTIFIER", "Expected function name")
        P2 == Consumed(P1, "LPAREN", "Expected '(' after function name")
        P3 == IF ~p_check(P2, "RPAREN") THEN ParamList(P2) ELSE P2
        P4 == Consumed(P3, "RPAREN", "Expected ')' after parameters")
    IN  IF p_check(P4, "ARROW") THEN parse_type(p_advance(P4)).P ELSE P4

function_declaration(P) ==
    Parse("block_statement", Consumed(FunctionSignature(P), "LBRACE",
                             "Expected '{' before function body"))

\* the field loop of struct_declaration
StructFieldList(P, loop_guard) ==
    IF ~p_check(P, "RBRACE") /\ ~p_is_at_end(P)
    THEN IF loop_guard + 1 > MAX_FIELDS
         THEN error_at_current([P EXCEPT !.guard_trips = @ + 1],
                               "Too many struct fields or parser stuck in loop")
         ELSE LET f == consume(P, "IDENTIFIER", "Expected field name")
                  c == consume(f.P, "COLON", "Expected ':' after field name")
                  P1 == parse_type(c.P).P
              IN  IF ~f.ok THEN f.P
                  ELSE IF ~c.ok THEN c.P
                  ELSE IF p_check(P1, "COMMA") THEN StructFieldList(p_advance(P1), loop_guard + 1)
                  ELSE P1
    ELSE P

struct_declaration(P) ==
    LET P1 == Consumed(P, "IDENTIFIER", "Expected struct name")
        P2 == Consumed(P1, "LBRACE", "Expected '{' after struct name")
    IN  Consumed(StructFieldList(P2, 0), "RBRACE", "Expected '}' after struct fields")

\* the loop of impl_block; prev_position is -1 before the first pass
ImplLoop(P, loop_guard, prev_position) ==
    IF ~p_check(P, "RBRACE") /\ ~p_is_at_end(P)
    THEN IF loop_guard + 1 > MAX_IMPL_FUNCTIONS
         THEN error_at_current([P EXCEPT !.guard_trips = @ + 1],
                               "Too many functions in impl block or parser stuck in loop")
         ELSE LET stuck == prev_position # -1 /\ P.current = prev_position
                  P1 == IF stuck
                        THEN p_advance(error_at_current(P, "Parser stuck in impl block parsing"))
                        ELSE P
                  P2 == IF p_check(P1, "FN") THEN function_declaration(p_advance(P1))
                        ELSE synchronize(error_at_current(P1, "Expected 'fn' in impl block"))
              IN  IF stuck /\ loop_guard + 1 > 10 THEN P1
                  ELSE ImplLoop(P2, loop_guard + 1, P1.current)
    ELSE P

impl_block(P) ==
    LET P1 == Consumed(P, "IDENTIFIER", "Expected struct name after 'impl'")
        P2 == Consumed(P1, "LBRACE", "Expected '{' after struct name")
    IN  Consumed(ImplLoop(P2, 0, -1), "RBRACE", "Expected '}' after impl block")

extern_declaration(P) ==
    IF p_check(P, "STRUCT")
    THEN Consumed(Consumed(p_advance(P), "IDENTIFIER", "Expected struct name"),
                  "SEMICOLON", "Expected ';' after extern struct declaration")
    ELSE LET P1 == Consumed(P, "FN", "Expected 'fn' or 'struct' after 'extern'")
         IN  Consumed(FunctionSignature(P1), "SEMICOLON",
                      "Expected ';' after extern function declaration")

include_directive(P) ==
    LET P1 == Consumed(P, "LPAREN", "Expected '(' after 'include'")
        P2 == Consumed(P1, "STRING_LITERAL", "Expected string literal for include path")
        P3 == Consumed(P2, "RPAREN", "Expected ')' after include path")
    IN  Consumed(P3, "SEMICOLON", "Expected ';' after include statement")

declaration(P) ==
    LET t == p_peek(P)
    IN  CASE t = "INCLUDE" -> include_directive(p_advance(P))
          [] t = "EXTERN" -> extern_declaration(p_advance(P))
          [] t = "FN" -> function_declaration(p_advance(P))
          [] t = "STRUCT" -> struct_declaration(p_advance(P))
          [] t = "IMPL" -> impl_block(p_advance(P))
          [] t = "LET" -> let_statement(p_advance(P))
          [] OTHER -> Parse("statement", P)

expression(P) == assignment(P)

Parse(f, P) ==
    CASE f = "expression" -> expression(P)
      [] f = "statement" -> statement(P)
      [] f = "declaration" -> declaration(P)
      [] f = "block_statement" -> block_statement(P)

\* parser_create, and the locals of parser_parse before its loop
parser_create(underflow) ==
    [current |-> 0, had_error |-> FALSE, panic_mode |-> FALSE, errors |-> <<>>,
     loop_guard |-> 0, prev_position |-> 0, stuck_count |-> 0,
     underflow |-> underflow, ub |-> {}, trace |-> <<>>, guard_trips |-> 0]

\* the token types the input streams are drawn from
ParserAlphabet == {"IDENTIFIER", "INT_LITERAL", "SEMICOLON", "LPAREN", "RPAREN",
                   "LBRACE", "DOUBLE_COLON", "IMPL", "FN"}

TokenStreams == {Append(ts, "EOF") : ts \in SeqsUpTo(ParserAlphabet, MaxTokens)}

ParInit ==
    /\ tokens \in TokenStreams
    /\ \E underflow \in {"SEMICOLON", "OTHER"} : parser = parser_create(underflow)
    /\ ppc = "loop"
    /\ LexIdle /\ DrvIdle /\ SemIdle /\ SymIdle /\ TypIdle /\ GenIdle

\* the head of a pass of the loop of parser_parse: the guards against a
\* parser that does not move; abort says the loop is left
ParseLoopHead(P) ==
    IF P.loop_guard + 1 > MAX_DECLARATIONS
    THEN [abort |-> TRUE,
          P |-> error_at_current([P EXCEPT !.loop_guard = @ + 1],
                                 "Program too large or parser stuck in infinite loop")]
    ELSE LET P0 == [P EXCEPT !.loop_guard = @ + 1]
         IN  IF P0.current = P0.prev_position
             THEN LET P1 == [P0 EXCEPT !.stuck_count = @ + 1]
                      P2 == p_advance(error_at_current(P1,
                                "Parser stuck at same position - forcing advance"))
                  IN  IF P1.stuck_count > 5
                      THEN IF P1.stuck_count > 10
                           THEN [abort |-> TRUE,
                                 P |-> error_at_current(P2,
                                          "Parser repeatedly stuck - aborting parse")]
                           ELSE [abort |-> FALSE, P |-> P2]
                      ELSE [abort |-> FALSE, P |-> P1]
             ELSE [abort |-> FALSE, P |-> [P0 EXCEPT !.stuck_count = 0]]

\* one pass of the loop of parser_parse up to the call of synchronize.  A
\* read through a null operand of `::` ends the process; a read through an
\* operand that is not an identifier may end it or go on.
ParseDeclaration ==
    /\ ppc = "loop"
    /\ ~p_is_at_end(parser)
    /\ LET h == ParseLoopHead(parser)
           P1 == [h.P EXCEPT !.prev_position = h.P.current]
           P2 == Parse("declaration", P1)
           new_ub == P2.ub \ parser.ub
       IN  IF h.abort THEN parser' = h.P /\ ppc' = "done"
           ELSE /\ parser' = P2
                /\ \/ /\ "null_deref" \notin new_ub
                      /\ ppc' = IF P2.panic_mode THEN "sync" ELSE "loop"
                   \/ /\ new_ub \cap {"null_deref", "wild_read"} # {}
                      /\ ppc' = "crashed"
    /\ UNCHANGED <<tokens, lexVars, drvVars, semVars, symVars, typVars, genVars>>

\* if (parser->panic_mode) synchronize(parser);
ParseSynchronize ==
    /\ ppc = "sync"
    /\ parser' = synchronize(parser)
    /\ ppc' = "loop"
    /\ UNCHANGED <<tokens, lexVars, drvVars, semVars, symVars, typVars, genVars>>

\* the loop condition fails: return program
ParseReturn ==
    /\ ppc = "loop"
    /\ p_is_at_end(parser)
    /\ ppc' = "done"
    /\ UNCHANGED <<tokens, parser, lexVars, drvVars, semVars, symVars, typVars, genVars>>

ParNext == ParseDeclaration \/ ParseSynchronize \/ ParseReturn

SpecParser == ParInit /\ [][ParNext]_vars

----------------------------------------------------------------------------
\* SEMANTIC ANALYSIS (src/semantic.c, src/symbol_table.c)
\*
\* A type is a record with a kind; NULL is the null Type pointer.  An AST node
\* is a record with a kind; an expression node carries data_type, which the
\* analysis fills in; NULLNODE is the null AstNode pointer.

NULL == [kind |-> "NULL"]

NULLNODE == [kind |-> "NULLNODE"]

\* the null char pointer
NullName == "NULL"

type_create(kind) == [kind |-> kind]

ArrayType(element_type, size) ==
    [kind |-> "array", element_type |-> element_type, size |-> size]

ReferenceType(referenced_type, is_mutable) ==
    [kind |-> "reference", referenced_type |-> referenced_type, is_mutable |-> is_mutable]

StructType(name) == [kind |-> "struct", name |-> name]

IntegralKinds == {"i8", "i16", "i32", "i64", "u8", "u16", "u32", "u64"}

FloatKinds == {"f32", "f64"}

RECURSIVE types_equal(_, _)
\* types_equal without the comparison of is_mutable
types_equal_AnyMutability(a, b) ==
    IF a = NULL \/ b = NULL THEN FALSE
    ELSE IF a.kind # b.kind THEN FALSE
    ELSE CASE a.kind = "array" ->
                  types_equal(a.element_type, b.element_type) /\ a.size = b.size
           [] a.kind = "pointer" -> types_equal(a.pointed_type, b.pointed_type)
           [] a.kind = "reference" -> types_equal(a.referenced_type, b.referenced_type)
           [] a.kind = "struct" -> a.name = b.name
           [] OTHER -> TRUE

types_equal(a, b) ==
    IF a = NULL \/ b = NULL THEN FALSE
    ELSE IF a.kind # b.kind THEN FALSE
    ELSE CASE a.kind = "array" ->
                  types_equal(a.element_type, b.element_type) /\ a.size = b.size
           [] a.kind = "pointer" -> types_equal(a.pointed_type, b.pointed_type)
           [] a.kind = "reference" ->
                  /\ types_equal(a.referenced_type, b.referenced_type)
                  /\ a.is_mutable = b.is_mutable
           [] a.kind = "struct" -> a.name = b.name
           [] OTHER -> TRUE

type_is_numeric(type) == type # NULL /\ type.kind \in IntegralKinds \cup FloatKinds

type_is_integral(type) == type # NULL /\ type.kind \in IntegralKinds

type_dereference(type) ==
    IF type = NULL THEN NULL
    ELSE IF type.kind = "pointer" THEN type.pointed_type
    ELSE IF type.kind = "reference" THEN type.referenced_type
    ELSE NULL

\* the value semantic_check_types_compatible returns when it returns
semantic_check_types_compatible(expected, actual) ==
    \/ types_equal(expected, actual)
    \/ type_is_integral(expected) /\ type_is_integral(actual)
    \/ expected.kind \in FloatKinds /\ actual.kind \in FloatKinds

\* semantic_check_types_compatible reads expected->kind, and then
\* actual->kind, without a test for NULL
CompatibleReadsNull(expected, actual) ==
    /\ ~types_equal(expected, actual)
    /\ ~(type_is_integral(expected) /\ type_is_integral(actual))
    /\ \/ expected = NULL
       \/ expected.kind \in FloatKinds /\ actual = NULL

\* the analyzer of semantic_create with its symbol table: scopes[1] is the
\* global scope and the last scope is the current one; entered and exited
\* count the calls that enter a scope and the calls of symbol_table_exit_scope
semantic_create ==
    [success |-> TRUE, errors |-> <<>>, in_loop_count |-> 0,
     functions_analyzed |-> 0, structs_analyzed |-> 0, variables_analyzed |-> 0,
     scopes |-> <<[type |-> "GLOBAL", symbols |-> <<>>, return_type |-> NULL,
                   struct_name |-> NullName]>>,
     types |-> <<>>, crashed |-> FALSE, i |-> 1, entered |-> 0, exited |-> 0]

semantic_error_node(A, message, arg) ==
    [A EXCEPT !.success = FALSE,
              !.errors = Append(@, [message |-> message, arg |-> arg])]

\* the process dies on a read through a null pointer
NullDeref(A) == [A EXCEPT !.crashed = TRUE]

NoSymbol == [kind |-> "NONE"]

scope_lookup(scope, name) ==
    IF \E i \in 1..Len(scope.symbols) : scope.symbols[i].name = name
    THEN scope.symbols[CHOOSE i \in 1..Len(scope.symbols) : scope.symbols[i].name = name]
    ELSE NoSymbol

symbol_table_enter_scope(A, type, return_type) ==
    [A EXCEPT !.scopes = Append(@, [type |-> type, symbols |-> <<>>,
                                    return_type |-> return_type,
                                    struct_name |-> NullName]),
              !.entered = @ + 1]

symbol_table_exit_scope(A) ==
    IF Len(A.scopes) > 1
    THEN [A EXCEPT !.scopes = SubSeq(@, 1, Len(@) - 1), !.exited = @ + 1]
    ELSE [A EXCEPT !.exited = @ + 1]

\* symbol_table_define without its scope_lookup of the current scope
symbol_table_define_NoLookup(A, name, kind, type, is_mutable) ==
    [ok |-> TRUE,
     A |-> [A EXCEPT !.scopes[Len(A.scopes)].symbols =
                Append(@, [name |-> name, kind |-> kind, type |-> type,
                           is_mutable |-> is_mutable, is_initialized |-> FALSE,
                           param_types |-> <<>>])]]

\* symbol_table_define: ok is FALSE when it returns NULL.  A scope is the
\* sequence of its symbols: a symbol is only ever put in the bucket
\* hash_string gives for its name and table_size never changes, so the
\* chain that scope_lookup and scope_define walk holds every symbol of the
\* scope that has the name.
symbol_table_define(A, name, kind, type, is_mutable) ==
    LET cur == Len(A.scopes)
    IN  IF scope_lookup(A.scopes[cur], name) # NoSymbol THEN [ok |-> FALSE, A |-> A]
        ELSE [ok |-> TRUE,
              A |-> [A EXCEPT !.scopes[cur].symbols =
                         Append(@, [name |-> name, kind |-> kind, type |-> type,
                                    is_mutable |-> is_mutable, is_initialized |-> FALSE,
                                    param_types |-> <<>>])]]

\* the stores through the Symbol* that symbol_table_define returned
SetDefined(A, name, is_initialized, param_types) ==
    LET cur == Len(A.scopes)
        i == CHOOSE j \in 1..Len(A.scopes[cur].symbols) : A.scopes[cur].symbols[j].name = name
    IN  [A EXCEPT !.scopes[cur].symbols[i].is_initialized = is_initialized,
                  !.scopes[cur].symbols[i].param_types = param_types]

RECURSIVE LookupFrom(_, _, _)
LookupFrom(A, name, level) ==
    IF level = 0 THEN NoSymbol
    ELSE LET sym == scope_lookup(A.scopes[level], name)
         IN  IF sym # NoSymbol THEN sym ELSE LookupFrom(A, name, level - 1)

symbol_table_lookup(A, name) == LookupFrom(A, name, Len(A.scopes))

symbol_table_lookup_function(A, name) ==
    LET sym == symbol_table_lookup(A, name)
    IN  IF sym # NoSymbol /\ sym.kind = "FUNCTION" THEN sym ELSE NoSymbol

symbol_table_lookup_struct(A, name) ==
    IF \E i \in 1..Len(A.types) : A.types[i].name = name
    THEN A.types[CHOOSE i \in 1..Len(A.types) : A.types[i].name = name]
    ELSE NoSymbol

symbol_table_register_type(A, type_symbol) ==
    IF symbol_table_lookup_struct(A, type_symbol.name) # NoSymbol THEN [ok |-> FALSE, A |-> A]
    ELSE [ok |-> TRUE, A |-> [A EXCEPT !.types = Append(@, type_symbol)]]

RECURSIVE ReturnTypeFrom(_, _)
ReturnTypeFrom(A, level) ==
    IF level = 0 THEN NULL
    ELSE IF A.scopes[level].type = "FUNCTION" THEN A.scopes[level].return_type
    ELSE ReturnTypeFrom(A, level - 1)

symbol_table_get_return_type(A) == ReturnTypeFrom(A, Len(A.scopes))

RECURSIVE CurrentStructFrom(_, _)
CurrentStructFrom(A, level) ==
    IF level = 0 THEN NullName
    ELSE IF A.scopes[level].type = "STRUCT" THEN A.scopes[level].struct_name
    ELSE CurrentStructFrom(A, level - 1)

\* the struct_name of the nearest scope of type STRUCT, NULL when there is
\* none
symbol_table_get_current_struct(A) == CurrentStructFrom(A, Len(A.scopes))

\* check_expression, check_statement and analyze_node call each other;
\* Check(f, A, node) is the call of one of them by name
RECURSIVE Check(_, _, _)

\* what an expression check returns: the analyzer, the type returned (NULL
\* on failure) and the node with the data_type fields the check has set
Checked(A, t, e) == [A |-> A, t |-> t, e |-> e]

\* if (result_type) expr->data_type = result_type;
Typed(r) == IF r.t # NULL THEN [r EXCEPT !.e.data_type = r.t] ELSE r

ExpressionKinds == {"LITERAL", "IDENTIFIER", "BINARY_OP", "UNARY_OP", "CAST", "CALL",
                    "INDEX", "FIELD", "ASSIGNMENT", "ARRAY_LITERAL", "STRUCT_LITERAL"}

ArithmeticOps == {"PLUS", "MINUS", "STAR", "SLASH", "PERCENT"}

ComparisonOps == {"LT", "GT", "LT_EQ", "GT_EQ"}

BitwiseOps == {"AND", "OR", "XOR", "LT_LT", "GT_GT"}

\* "%s::%s"
MethodFullName(struct_name, method) == struct_name \o "::" \o method

RECURSIVE CheckArguments(_, _, _, _, _, _),
          CheckEach(_, _, _), CheckElements(_, _, _, _), CheckFieldValues(_, _, _, _)

check_binary_op(A, expr) ==
    LET l == Check("expression", A, expr.left)
        r == Check("expression", l.A, expr.right)
        e == [expr EXCEPT !.left = l.e, !.right = r.e]
        op == expr.op
        fail(message) == Checked(semantic_error_node(r.A, message, ""), NULL, e)
    IN  IF l.t = NULL \/ r.t = NULL THEN Checked(r.A, NULL, e)
        ELSE CASE op \in ArithmeticOps ->
                    IF ~type_is_numeric(l.t) \/ ~type_is_numeric(r.t)
                    THEN fail("Arithmetic operation requires numeric types")
                    ELSE IF l.t.kind = "f64" \/ r.t.kind = "f64"
                    THEN Checked(r.A, type_create("f64"), e)
                    ELSE IF l.t.kind = "f32" \/ r.t.kind = "f32"
                    THEN Checked(r.A, type_create("f32"), e)
                    ELSE Checked(r.A, type_create("i32"), e)
               [] op \in ComparisonOps ->
                    IF ~type_is_numeric(l.t) \/ ~type_is_numeric(r.t)
                    THEN fail("Comparison requires numeric types")
                    ELSE Checked(r.A, type_create("bool"), e)
               [] op \in {"EQ_EQ", "NOT_EQ"} ->
                    IF ~types_equal(l.t, r.t)
                    THEN fail("Equality comparison requires same types")
                    ELSE Checked(r.A, type_create("bool"), e)
               [] op \in {"AND_AND", "OR_OR"} ->
                    IF l.t.kind # "bool" \/ r.t.kind # "bool"
                    THEN fail("Logical operation requires boolean types")
                    ELSE Checked(r.A, type_create("bool"), e)
               [] op \in BitwiseOps ->
                    IF ~type_is_integral(l.t) \/ ~type_is_integral(r.t)
                    THEN fail("Bitwise operation requires integral types")
                    ELSE Checked(r.A, l.t, e)
               [] OTHER -> fail("Unknown binary operator")

check_unary_op(A, expr) ==
    LET o == Check("expression", A, expr.operand)
        e == [expr EXCEPT !.operand = o.e]
        op == expr.op
        fail(message) == Checked(semantic_error_node(o.A, message, ""), NULL, e)
    IN  IF o.t = NULL THEN Checked(o.A, NULL, e)
        ELSE CASE op = "MINUS" ->
                    IF ~type_is_numeric(o.t) THEN fail("Negation requires numeric type")
                    ELSE Checked(o.A, o.t, e)
               [] op = "NOT" ->
                    IF o.t.kind # "bool" THEN fail("Logical NOT requires boolean type")
                    ELSE Checked(o.A, type_create("bool"), e)
               [] op = "STAR" ->
                    IF type_dereference(o.t) = NULL
                    THEN fail("Cannot dereference non-pointer type")
                    ELSE Checked(o.A, type_dereference(o.t), e)
               [] op = "AND" -> Checked(o.A, ReferenceType(o.t, expr.is_mut_ref), e)
               [] OTHER -> fail("Unknown unary operator")

\* the argument loops of check_call: r.args are the checked arguments
CheckArguments(A, args, param_types, skip, message, i) ==
    IF i > Len(args) THEN [A |-> A, args |-> args]
    ELSE LET a == Check("expression", A, args[i])
             param_type == param_types[i + skip]
             A1 == IF a.t = NULL THEN a.A
                   ELSE IF CompatibleReadsNull(param_type, a.t) THEN NullDeref(a.A)
                   ELSE IF ~semantic_check_types_compatible(param_type, a.t)
                   THEN semantic_error_node(a.A, message, "")
                   ELSE a.A
         IN  CheckArguments(A1, [args EXCEPT ![i] = a.e], param_types, skip, message, i + 1)

\* the arguments of println and print
CheckEach(A, args, i) ==
    IF i > Len(args) THEN [A |-> A, args |-> args]
    ELSE LET a == Check("expression", A, args[i])
         IN  CheckEach(a.A, [args EXCEPT ![i] = a.e], i + 1)

\* The names that contain "::" are those the parser makes of two or more
\* identifiers, at most MaxPath of them: JoinPath(path, "::") is the name
\* made of the identifiers of path.
MaxPath == 3

PathSegments == {"S", "T", "m", "new"}

Paths == {path \in SeqsUpTo(PathSegments, MaxPath) : Len(path) >= 2}

RECURSIVE JoinPath(_, _)
JoinPath(path, separator) ==
    IF Len(path) = 1 THEN path[1]
    ELSE path[1] \o separator \o JoinPath(Tail(path), separator)

PathNames == {JoinPath(path, "::") : path \in Paths}

check_method_call(A, expr) ==
    LET o == Check("expression", A, expr.function.object)
        e == [expr EXCEPT !.function.object = o.e]
        obj_type == IF o.t.kind \in {"reference", "pointer"} THEN type_dereference(o.t) ELSE o.t
        field_name == expr.function.field_name
        method_sym == symbol_table_lookup_function(o.A, MethodFullName(obj_type.name, field_name))
        fail(message) == Checked(semantic_error_node(o.A, message, field_name), NULL, e)
    IN  IF o.t = NULL THEN Checked(o.A, NULL, e)
        ELSE IF obj_type.kind # "struct" THEN fail("Method call on non-struct type")
        ELSE IF method_sym = NoSymbol THEN fail("Undefined method")
        ELSE IF Len(expr.arguments) # Len(method_sym.param_types) - 1
        THEN fail("Method expects a different number of arguments")
        ELSE LET r == CheckArguments(o.A, expr.arguments, method_sym.param_types, 1,
                                     "Argument type mismatch in method call", 1)
             IN  Checked(r.A, method_sym.type, [e EXCEPT !.arguments = r.args])

check_call(A, expr) ==
    IF expr.function.kind = "FIELD" THEN check_method_call(A, expr)
    ELSE IF expr.function.kind # "IDENTIFIER"
    THEN Checked(semantic_error_node(A, "Can only call functions by name", ""), NULL, expr)
    ELSE LET func_name == expr.function.name
             func_sym == symbol_table_lookup_function(A, func_name)
             fail(message) == Checked(semantic_error_node(A, message, func_name), NULL, expr)
         IN  CASE func_name \in {"println", "print"} ->
                    LET r == CheckEach(A, expr.arguments, 1)
                    IN  Checked(r.A, type_create("void"), [expr EXCEPT !.arguments = r.args])
               [] func_name = "sqrt" ->
                    IF Len(expr.arguments) # 1 THEN fail("sqrt expects 1 argument")
                    ELSE LET a == Check("expression", A, expr.arguments[1])
                             e == [expr EXCEPT !.arguments[1] = a.e]
                         IN  IF ~type_is_numeric(a.t)
                             THEN Checked(semantic_error_node(a.A, "sqrt requires numeric argument", ""),
                                          NULL, e)
                             ELSE Checked(a.A, type_create("f32"), e)
               [] OTHER ->
                    IF func_sym = NoSymbol
                    THEN IF func_name \in PathNames THEN Checked(A, type_create("struct"), expr)
                         ELSE fail("Undefined function")
                    ELSE IF Len(expr.arguments) # Len(func_sym.param_types)
                    THEN fail("Function expects a different number of arguments")
                    ELSE LET r == CheckArguments(A, expr.arguments, func_sym.param_types, 0,
                                                 "Argument type mismatch in call", 1)
                         IN  Checked(r.A, func_sym.type, [expr EXCEPT !.arguments = r.args])

check_index(A, expr) ==
    LET a == Check("expression", A, expr.array)
        i == Check("expression", a.A, expr.index)
        e == [expr EXCEPT !.array = a.e, !.index = i.e]
        array_type == IF a.t.kind = "reference" /\ a.t.referenced_type.kind = "array"
                      THEN a.t.referenced_type ELSE a.t
        fail(message) == Checked(semantic_error_node(i.A, message, ""), NULL, e)
    IN  IF a.t = NULL \/ i.t = NULL THEN Checked(i.A, NULL, e)
        ELSE IF array_type.kind \notin {"array", "pointer"}
        THEN fail("Cannot index non-array or pointer type")
        ELSE IF ~type_is_integral(i.t) THEN fail("Array index must be integral type")
        ELSE Checked(i.A, IF array_type.kind = "array" THEN array_type.element_type
                          ELSE array_type.pointed_type, e)

check_field(A, expr) ==
    LET o == Check("expression", A, expr.object)
        e == [expr EXCEPT !.object = o.e]
        object_type == IF o.t.kind \in {"reference", "pointer"} THEN type_dereference(o.t) ELSE o.t
        struct_sym == symbol_table_lookup_struct(o.A, object_type.name)
        fields == struct_sym.fields
        fail(message) == Checked(semantic_error_node(o.A, message, expr.field_name), NULL, e)
    IN  IF o.t = NULL THEN Checked(o.A, NULL, e)
        ELSE IF object_type.kind # "struct" THEN fail("Cannot access field of non-struct type")
        ELSE IF struct_sym = NoSymbol THEN fail("Undefined struct")
        ELSE IF \E j \in 1..Len(fields) : fields[j].name = expr.field_name
        THEN Checked(o.A, fields[CHOOSE j \in 1..Len(fields) :
                                     /\ fields[j].name = expr.field_name
                                     /\ \A k \in 1..(j - 1) : fields[k].name # expr.field_name].type, e)
        ELSE fail("Struct has no field")

\* the symbol check_assignment looks up for an index target: the array
\* operand's bytes are read as an identifier name whatever its kind, and the
\* bytes of a node that is not an identifier name no symbol
IndexTargetSymbol(A, target) ==
    IF target.array.kind = "IDENTIFIER" THEN symbol_table_lookup(A, target.array.name)
    ELSE NoSymbol

check_assignment(A, expr) ==
    LET t == Check("expression", A, expr.target)
        v == Check("expression", t.A, expr.value)
        e == [expr EXCEPT !.target = t.e, !.value = v.e]
        target == expr.target
        var == IF target.kind = "IDENTIFIER" THEN symbol_table_lookup(v.A, target.name)
               ELSE IF target.kind = "INDEX" THEN IndexTargetSymbol(v.A, target)
               ELSE NoSymbol
        fail(message) == Checked(semantic_error_node(v.A, message, ""), NULL, e)
    IN  IF t.t = NULL \/ v.t = NULL THEN Checked(v.A, NULL, e)
        ELSE IF target.kind = "IDENTIFIER" /\ var # NoSymbol /\ ~var.is_mutable
        THEN fail("Cannot assign to immutable variable")
        ELSE IF target.kind = "INDEX" /\ var # NoSymbol /\ ~var.is_mutable
        THEN fail("Cannot assign to read-only location")
        ELSE IF ~semantic_check_types_compatible(t.t, v.t)
        THEN fail("Type mismatch in assignment")
        ELSE Checked(v.A, t.t, e)

\* the loop over elements[1..] of an array literal; ok is FALSE when it
\* returned NULL at an element whose type differs from the first one's
CheckElements(A, elements, elem_type, i) ==
    IF i > Len(elements) THEN [ok |-> TRUE, A |-> A, elements |-> elements]
    ELSE LET t == Check("expression", A, elements[i])
             es == [elements EXCEPT ![i] = t.e]
         IN  IF ~types_equal(elem_type, t.t)
             THEN [ok |-> FALSE, elements |-> es,
                   A |-> semantic_error_node(t.A, "Array literal elements must have same type", "")]
             ELSE CheckElements(t.A, es, elem_type, i + 1)

\* the loop over the fields of a struct literal
CheckFieldValues(A, expr, fields, i) ==
    IF i > Len(expr.field_values) THEN [A |-> A, e |-> expr]
    ELSE LET v == Check("expression", A, expr.field_values[i])
             field_name == expr.field_names[i]
             found == \E j \in 1..Len(fields) : fields[j].name = field_name
             field == fields[CHOOSE j \in 1..Len(fields) :
                                /\ fields[j].name = field_name
                                /\ \A k \in 1..(j - 1) : fields[k].name # field_name]
             A1 == IF ~found
                   THEN semantic_error_node(v.A, "Unknown field in struct", field_name)
                   ELSE IF CompatibleReadsNull(field.type, v.t) THEN NullDeref(v.A)
                   ELSE IF ~semantic_check_types_compatible(field.type, v.t)
                   THEN semantic_error_node(v.A, "Type mismatch for field in struct literal",
                                            field_name)
                   ELSE v.A
         IN  CheckFieldValues(A1, [expr EXCEPT !.field_values[i] = v.e], fields, i + 1)

check_identifier(A, expr) ==
    LET name == expr.name
        current_struct == symbol_table_get_current_struct(A)
        sym == symbol_table_lookup(A, name)
    IN  IF name = "self" /\ current_struct # NullName
        THEN Typed(Checked(A, StructType(current_struct), expr))
        ELSE IF sym = NoSymbol
        THEN Checked(semantic_error_node(A, "Undefined variable", name), NULL, expr)
        ELSE IF ~sym.is_initialized /\ sym.kind = "VARIABLE"
        THEN Typed(Checked(semantic_error_node(A, "Use of uninitialized variable", name),
                           sym.type, expr))
        ELSE Typed(Checked(A, sym.type, expr))

check_array_literal(A, expr) ==
    IF Len(expr.elements) = 0
    THEN Checked(semantic_error_node(A, "Cannot infer type of empty array literal", ""), NULL, expr)
    ELSE LET first == Check("expression", A, expr.elements[1])
             r == CheckElements(first.A, [expr.elements EXCEPT ![1] = first.e], first.t, 2)
             e == [expr EXCEPT !.elements = r.elements]
         IN  IF ~r.ok THEN Checked(r.A, NULL, e)
             ELSE Checked(r.A, ArrayType(first.t, Len(expr.elements)), e)

check_struct_literal(A, expr) ==
    LET struct_sym == symbol_table_lookup_struct(A, expr.struct_name)
    IN  IF struct_sym = NoSymbol
        THEN Checked(semantic_error_node(A, "Undefined struct", expr.struct_name), NULL, expr)
        ELSE LET r == CheckFieldValues(A, expr, struct_sym.fields, 1)
             IN  Typed(Checked(r.A, struct_sym.type, r.e))

\* check_expression returns the array type of an array literal without
\* storing it in the node; every other type it returns it stores
check_expression(A, expr) ==
    IF expr = NULLNODE THEN Checked(A, NULL, expr)
    ELSE IF expr.kind \notin ExpressionKinds
    THEN Checked(semantic_error_node(A, "Unknown expression type", ""), NULL, expr)
    ELSE IF expr.data_type # NULL THEN Checked(A, expr.data_type, expr)
    ELSE CASE expr.kind = "LITERAL" -> Typed(Checked(A, type_create("i32"), expr))
           [] expr.kind = "IDENTIFIER" -> check_identifier(A, expr)
           [] expr.kind = "BINARY_OP" -> Typed(check_binary_op(A, expr))
           [] expr.kind = "UNARY_OP" -> Typed(check_unary_op(A, expr))
           [] expr.kind = "CAST" ->
                  LET o == Check("expression", A, expr.expression)
                      e == [expr EXCEPT !.expression = o.e]
                  IN  IF o.t = NULL THEN Checked(o.A, NULL, e)
                      ELSE Typed(Checked(o.A, expr.target_type, e))
           [] expr.kind = "CALL" -> Typed(check_call(A, expr))
           [] expr.kind = "INDEX" -> Typed(check_index(A, expr))
           [] expr.kind = "FIELD" -> Typed(check_field(A, expr))
           [] expr.kind = "ASSIGNMENT" -> Typed(check_assignment(A, expr))
           [] expr.kind = "ARRAY_LITERAL" -> check_array_literal(A, expr)
           [] expr.kind = "STRUCT_LITERAL" -> check_struct_literal(A, expr)

\* what a statement check returns: the analyzer and the checked node
Done(A, n) == [A |-> A, n |-> n]

RECURSIVE CheckStatements(_, _, _)

check_let_statement(A, stmt) ==
    LET v == Check("expression", A, stmt.value)
        n == [stmt EXCEPT !.value = v.e]
        d == symbol_table_define(v.A, stmt.name, "VARIABLE", stmt.type, stmt.is_mutable)
    IN  IF stmt.type = NULL
        THEN Done(semantic_error_node(v.A, "Variable requires explicit type declaration",
                                      stmt.name), n)
        ELSE IF v.t # NULL /\ ~semantic_check_types_compatible(stmt.type, v.t)
        THEN Done(semantic_error_node(v.A, "Type mismatch in variable declaration", ""), n)
        ELSE IF ~d.ok
        THEN Done(semantic_error_node(v.A, "Variable already defined in this scope", stmt.name), n)
        ELSE LET A1 == IF stmt.value # NULLNODE THEN SetDefined(d.A, stmt.name, TRUE, <<>>)
                       ELSE d.A
             IN  Done([A1 EXCEPT !.variables_analyzed = @ + 1], n)

\* a branch or a body checked in a scope of its own
InScope(A, type, stmt) ==
    LET b == Check("statement", symbol_table_enter_scope(A, type, NULL), stmt)
    IN  Done(symbol_table_exit_scope(b.A), b.n)

check_if_statement(A, stmt) ==
    LET c == Check("expression", A, stmt.condition)
        A1 == IF c.t # NULL /\ c.t.kind # "bool"
              THEN semantic_error_node(c.A, "If condition must be boolean", "") ELSE c.A
        t == InScope(A1, "BLOCK", stmt.then_branch)
        e == IF stmt.else_branch # NULLNODE THEN InScope(t.A, "BLOCK", stmt.else_branch)
             ELSE Done(t.A, stmt.else_branch)
    IN  Done(e.A, [stmt EXCEPT !.condition = c.e, !.then_branch = t.n, !.else_branch = e.n])

\* in_loop_count++, the body in a scope of type LOOP, in_loop_count--
LoopBody(A, stmt) ==
    LET b == InScope([A EXCEPT !.in_loop_count = @ + 1], "LOOP", stmt.body)
    IN  Done([b.A EXCEPT !.in_loop_count = @ - 1], [stmt EXCEPT !.body = b.n])

check_while_statement(A, stmt) ==
    LET c == Check("expression", A, stmt.condition)
        A1 == IF c.t # NULL /\ c.t.kind # "bool"
              THEN semantic_error_node(c.A, "While condition must be boolean", "") ELSE c.A
    IN  LoopBody(A1, [stmt EXCEPT !.condition = c.e])

check_for_statement(A, stmt) ==
    LET A0 == symbol_table_enter_scope([A EXCEPT !.in_loop_count = @ + 1], "LOOP", NULL)
        s == Check("expression", A0, stmt.start)
        e == Check("expression", s.A, stmt.end)
        A1 == IF ~type_is_integral(s.t) \/ ~type_is_integral(e.t)
              THEN semantic_error_node(e.A, "For loop range must be integral", "") ELSE e.A
        d == symbol_table_define(A1, stmt.iterator, "VARIABLE", type_create("i32"), FALSE)
        A2 == IF d.ok THEN SetDefined(d.A, stmt.iterator, TRUE, <<>>) ELSE d.A
        b == Check("statement", A2, stmt.body)
    IN  Done([symbol_table_exit_scope(b.A) EXCEPT !.in_loop_count = @ - 1],
             [stmt EXCEPT !.start = s.e, !.end = e.e, !.body = b.n])

check_return_statement(A, stmt) ==
    LET return_type == symbol_table_get_return_type(A)
        v == Check("expression", A, stmt.value)
        n == [stmt EXCEPT !.value = v.e]
    IN  IF return_type = NULL
        THEN Done(semantic_error_node(A, "Return statement outside function", ""), stmt)
        ELSE IF stmt.value # NULLNODE
        THEN IF CompatibleReadsNull(return_type, v.t) THEN Done(NullDeref(v.A), n)
             ELSE IF ~semantic_check_types_compatible(return_type, v.t)
             THEN Done(semantic_error_node(v.A, "Return type mismatch", ""), n)
             ELSE Done(v.A, n)
        ELSE IF return_type.kind # "void"
        THEN Done(semantic_error_node(A, "Function expects return value", ""), stmt)
        ELSE Done(A, stmt)

check_break_statement(A, stmt) ==
    IF A.in_loop_count = 0
    THEN Done(semantic_error_node(A, "Break statement outside loop", ""), stmt)
    ELSE Done(A, stmt)

check_continue_statement(A, stmt) ==
    IF A.in_loop_count = 0
    THEN Done(semantic_error_node(A, "Continue statement outside loop", ""), stmt)
    ELSE Done(A, stmt)

CheckStatements(A, statements, i) ==
    IF i > Len(statements) THEN [A |-> A, statements |-> statements]
    ELSE LET s == Check("statement", A, statements[i])
         IN  CheckStatements(s.A, [statements EXCEPT ![i] = s.n], i + 1)

\* check_block without its symbol_table_exit_scope
check_block_NoExit(A, block) ==
    LET r == CheckStatements(symbol_table_enter_scope(A, "BLOCK", NULL), block.statements, 1)
        f == Check("expression", r.A, block.final_expr)
    IN  Done(f.A, [block EXCEPT !.statements = r.statements, !.final_expr = f.e])

check_block(A, block) ==
    LET r == CheckStatements(symbol_table_enter_scope(A, "BLOCK", NULL), block.statements, 1)
        f == Check("expression", r.A, block.final_expr)
    IN  Done(symbol_table_exit_scope(f.A),
             [block EXCEPT !.statements = r.statements, !.final_expr = f.e])

check_statement(A, stmt) ==
    IF stmt = NULLNODE THEN Done(A, stmt)
    ELSE CASE stmt.kind = "LET" -> check_let_statement(A, stmt)
           [] stmt.kind = "IF" -> check_if_statement(A, stmt)
           [] stmt.kind = "WHILE" -> check_while_statement(A, stmt)
           [] stmt.kind = "FOR" -> check_for_statement(A, stmt)
           [] stmt.kind = "LOOP" -> LoopBody(A, stmt)
           [] stmt.kind = "RETURN" -> check_return_statement(A, stmt)
           [] stmt.kind = "BREAK" -> check_break_statement(A, stmt)
           [] stmt.kind = "CONTINUE" -> check_continue_statement(A, stmt)
           [] stmt.kind = "BLOCK" -> check_block(A, stmt)
           [] OTHER -> LET r == Check("expression", A, stmt) IN Done(r.A, r.e)

RECURSIVE ParamTypes(_)
ParamTypes(params) ==
    IF params = <<>> THEN <<>> ELSE <<params[1].type>> \o ParamTypes(Tail(params))

\* the loop of semantic_check_function that defines the parameters
RECURSIVE DefineParams(_, _, _)
DefineParams(A, params, i) ==
    IF i > Len(params) THEN A
    ELSE LET param_name == params[i].name
             param_type == params[i].type
             current_struct == symbol_table_get_current_struct(A)
             A1 == IF /\ param_name = "self"
                      /\ current_struct # NullName
                      /\ param_type # NULL
                      /\ param_type.kind = "struct"
                      /\ param_type.name # current_struct
                   THEN semantic_error_node(A, "self parameter type must match implementing struct", "")
                   ELSE A
             d == symbol_table_define(A1, param_name, "PARAMETER", param_type, FALSE)
         IN  DefineParams(IF d.ok THEN SetDefined(d.A, param_name, TRUE, <<>>) ELSE d.A,
                          params, i + 1)

semantic_check_function(A, func) ==
    LET d == symbol_table_define(A, func.name, "FUNCTION", func.return_type, FALSE)
        A1 == SetDefined(d.A, func.name, FALSE, ParamTypes(func.params))
        A2 == DefineParams(symbol_table_enter_scope(A1, "FUNCTION", func.return_type),
                           func.params, 1)
        b == Check("statement", A2, func.body)
    IN  IF ~d.ok THEN Done(semantic_error_node(A, "Function already defined", func.name), func)
        ELSE Done([symbol_table_exit_scope(b.A) EXCEPT !.functions_analyzed = @ + 1],
                  [func EXCEPT !.body = b.n])

semantic_check_struct(A, struct_def) ==
    LET struct_sym == [name |-> struct_def.name, kind |-> "STRUCT",
                       type |-> StructType(struct_def.name), fields |-> struct_def.fields]
        r == symbol_table_register_type(A, struct_sym)
    IN  IF ~r.ok THEN semantic_error_node(A, "Struct already defined", struct_def.name)
        ELSE [r.A EXCEPT !.structs_analyzed = @ + 1]

\* the loop of semantic_check_impl: each method is defined under the name
\* Struct::method and nothing else is done with it
RECURSIVE ImplMethods(_, _, _)
ImplMethods(A, impl, i) ==
    IF i > Len(impl.functions) THEN A
    ELSE LET method == impl.functions[i]
             saved_name == MethodFullName(impl.struct_name, method.name)
             d == symbol_table_define(A, saved_name, "FUNCTION", method.return_type, FALSE)
             A1 == IF d.ok
                   THEN [SetDefined(d.A, saved_name, FALSE, ParamTypes(method.params))
                            EXCEPT !.functions_analyzed = @ + 1]
                   ELSE d.A
         IN  ImplMethods(A1, impl, i + 1)

semantic_check_impl(A, impl) ==
    IF symbol_table_lookup_struct(A, impl.struct_name) = NoSymbol
    THEN semantic_error_node(A, "Implementing methods for undefined struct", impl.struct_name)
    ELSE ImplMethods(A, impl, 1)

\* analyze_node on an item of the third loop over the program
analyze_node(A, node) ==
    CASE node.kind = "FUNCTION" -> semantic_check_function(A, node)
      [] node.kind = "EXTERN_FUNCTION" ->
             LET d == symbol_table_define(A, node.name, "FUNCTION", node.return_type, FALSE)
             IN  Done(IF d.ok THEN SetDefined(d.A, node.name, TRUE, ParamTypes(node.params))
                      ELSE d.A, node)
      [] node.kind \in {"INCLUDE", "STRUCT", "IMPL"} -> Done(A, node)
      [] OTHER -> Check("statement", A, node)

\* the first and the second loop of analyze_node over the program
RECURSIVE StructPass(_, _, _), ImplPass(_, _, _)
StructPass(A, items, i) ==
    IF i > Len(items) THEN A
    ELSE StructPass(IF items[i].kind = "STRUCT" THEN semantic_check_struct(A, items[i]) ELSE A,
                    items, i + 1)

ImplPass(A, items, i) ==
    IF i > Len(items) THEN A
    ELSE ImplPass(IF items[i].kind = "IMPL" THEN semantic_check_impl(A, items[i]) ELSE A,
                      items, i + 1)

\* a process that has died on a null pointer makes no further call
Check(f, A, node) ==
    CASE A.crashed /\ f = "expression" -> Checked(A, NULL, node)
      [] A.crashed /\ f # "expression" -> Done(A, node)
      [] f = "expression" -> check_expression(A, node)
      [] f = "statement" -> check_statement(A, node)
      [] f = "node" -> analyze_node(A, node)

\* The nodes the parser builds (src/parser.c, src/ast.c): a literal comes
\* with its data_type, every other expression with none
Literal(kind) == [kind |-> "LITERAL", data_type |-> type_create(kind)]

Identifier(name) == [kind |-> "IDENTIFIER", name |-> name, data_type |-> NULL]

Call(function, arguments) ==
    [kind |-> "CALL", function |-> function, arguments |-> arguments, data_type |-> NULL]

Index(array, index) == [kind |-> "INDEX", array |-> array, index |-> index, data_type |-> NULL]

Field(object, field_name) ==
    [kind |-> "FIELD", object |-> object, field_name |-> field_name, data_type |-> NULL]

Deref(operand) ==
    [kind |-> "UNARY_OP", op |-> "STAR", operand |-> operand, is_mut_ref |-> FALSE,
     data_type |-> NULL]

Assignment(target, value) ==
    [kind |-> "ASSIGNMENT", op |-> "EQ", target |-> target, value |-> value, data_type |-> NULL]

ArrayLiteral(elements) == [kind |-> "ARRAY_LITERAL", elements |-> elements, data_type |-> NULL]

StructLiteral(struct_name, field_names, field_values) ==
    [kind |-> "STRUCT_LITERAL", struct_name |-> struct_name, field_names |-> field_names,
     field_values |-> field_values, data_type |-> NULL]

Let(is_mutable, name, type, value) ==
    [kind |-> "LET", is_mutable |-> is_mutable, name |-> name, type |-> type, value |-> value]

Return(value) == [kind |-> "RETURN", value |-> value]

Block(statements) == [kind |-> "BLOCK", statements |-> statements, final_expr |-> NULLNODE]

While(condition, body) == [kind |-> "WHILE", condition |-> condition, body |-> body]

Function(name, params, return_type, statements) ==
    [kind |-> "FUNCTION", name |-> name, params |-> params, return_type |-> return_type,
     body |-> Block(statements)]

\* The programs analysed.  f(r: &i32, p: S) has a body of up to
\* MaxStatements statements; x is the local the body may declare, u is
\* declared nowhere; g, struct S and impl S come before or after f.
MaxStatements == 2

Values == {Literal("i32"), Literal("f64"), Identifier("u")}

Targets == {Identifier("x"), Identifier("r"), Index(Identifier("x"), Literal("i32")),
            Field(Identifier("p"), "a"), Deref(Identifier("r"))}

Expressions ==
    {Call(Identifier(f), args) : f \in {"g", "sqrt"}, args \in {<<>>} \cup {<<v>> : v \in Values}}
    \cup {Call(Field(Identifier("p"), "m"), <<>>)}
    \cup {Assignment(t, v) : t \in Targets, v \in {Literal("i32"), Literal("f64")}}
    \cup {ArrayLiteral(<<Literal("i32"), v>>) : v \in {Literal("i32"), Literal("f64")}}
    \cup {StructLiteral("S", <<"a">>, <<v>>) : v \in {Literal("f64"), Identifier("u")}}

Statements ==
    Expressions
    \cup {Let(m, "x", type_create("i32"), v) : m \in BOOLEAN, v \in {Literal("i32"), NULLNODE}}
    \cup {Let(m, "x", ArrayType(type_create("i32"), 2),
              ArrayLiteral(<<Literal("i32"), Literal("i32")>>)) : m \in BOOLEAN}
    \cup {Return(v) : v \in {NULLNODE, Literal("f64"), Identifier("u"), Identifier("x")}}
    \cup {[kind |-> "BREAK"], While(Literal("bool"), Block(<<[kind |-> "BREAK"]>>))}

FunctionsF ==
    {Function("f", <<[name |-> "r", type |-> ReferenceType(type_create("i32"), FALSE)],
                     [name |-> "p", type |-> StructType("S")]>>, type_create(ret), body) :
        ret \in {"void", "f64"}, body \in SeqsUpTo(Statements, MaxStatements)}

FunctionG == Function("g", <<>>, type_create("void"), <<>>)

StructS == [kind |-> "STRUCT", name |-> "S", is_extern |-> FALSE,
            fields |-> <<[name |-> "a", type |-> type_create("f64")]>>]

ImplsS ==
    {[kind |-> "IMPL", struct_name |-> "S",
      functions |-> <<Function("m", <<[name |-> "self", type |-> StructType("S")]>>,
                               type_create("void"), body)>>] :
        body \in {<<>>, <<Identifier("u")>>,
                  <<Assignment(Field(Identifier("self"), "a"), Literal("f64"))>>}}

Programs ==
    {before \o <<f>> \o after :
        before \in {<<>>, <<FunctionG>>, <<StructS>>} \cup {<<StructS, i>> : i \in ImplsS},
        f \in FunctionsF, after \in {<<>>, <<FunctionG>>}}
    \cup {<<StructS, i>> : i \in ImplsS}

\* semantic_create and the call of semantic_analyze on the parser's tree;
\* analyzer.i is the index of analyze_node's third loop
SemInit ==
    /\ ast \in Programs
    /\ analyzer = semantic_create
    /\ spc = "structs"
    /\ LexIdle /\ DrvIdle /\ ParIdle /\ SymIdle /\ TypIdle /\ GenIdle

\* first loop: every struct is registered
AnalyzeStructs ==
    /\ spc = "structs"
    /\ analyzer' = StructPass(analyzer, ast, 1)
    /\ spc' = "impls"
    /\ UNCHANGED <<ast, lexVars, drvVars, parVars, symVars, typVars, genVars>>

\* second loop: the methods of every impl block are registered
AnalyzeImpls ==
    /\ spc = "impls"
    /\ analyzer' = ImplPass(analyzer, ast, 1)
    /\ spc' = "items"
    /\ UNCHANGED <<ast, lexVars, drvVars, parVars, symVars, typVars, genVars>>

\* one pass of the third loop; a read through a null pointer ends the process
AnalyzeItem ==
    /\ spc = "items"
    /\ analyzer.i <= Len(ast)
    /\ LET r == Check("node", analyzer, ast[analyzer.i])
       IN  IF r.A.crashed
           THEN /\ analyzer' = NullDeref(analyzer)
                /\ ast' = ast
                /\ spc' = "crashed"
           ELSE /\ analyzer' = [r.A EXCEPT !.i = @ + 1]
                /\ ast' = [ast EXCEPT ![analyzer.i] = r.n]
                /\ spc' = "items"
    /\ UNCHANGED <<lexVars, drvVars, parVars, symVars, typVars, genVars>>

\* return analyzer->success
AnalyzeReturn ==
    /\ spc = "items"
    /\ analyzer.i > Len(ast)
    /\ spc' = "done"
    /\ UNCHANGED <<ast, analyzer, lexVars, drvVars, parVars, symVars, typVars, genVars>>

SemNext == AnalyzeStructs \/ AnalyzeImpls \/ AnalyzeItem \/ AnalyzeReturn

SpecSemantic == SemInit /\ [][SemNext]_vars

\* The programs of the second family: one construct each, in every place
\* the grammar allows it.
If(condition, then_branch, else_branch) ==
    [kind |-> "IF", condition |-> condition, then_branch |-> then_branch,
     else_branch |-> else_branch]

For(iterator, start, end, body) ==
    [kind |-> "FOR", iterator |-> iterator, start |-> start, end |-> end, body |-> body]

Loop(body) == [kind |-> "LOOP", body |-> body]

Break == [kind |-> "BREAK"]

Continue == [kind |-> "CONTINUE"]

ExternFunction(name, params, return_type) ==
    [kind |-> "EXTERN_FUNCTION", name |-> name, params |-> params, return_type |-> return_type]

MaxDepth == 2

LoopWrappers(s) ==
    {While(Literal("bool"), Block(<<s>>)),
     For("i", Literal("i32"), Literal("i32"), Block(<<s>>)),
     Loop(Block(<<s>>))}

PlainWrappers(s) ==
    {If(Literal("bool"), Block(<<s>>), NULLNODE),
     If(Literal("bool"), Block(<<>>), Block(<<s>>)),
     Block(<<s>>)}

\* break and continue, and statements that are diagnosed: a let without a
\* type, a let whose value has another type, a return of a value the
\* function does not return, the use of a name declared nowhere
Leaves ==
    {Break, Continue,
     Let(FALSE, "x", NULL, Literal("i32")),
     Let(FALSE, "x", type_create("i32"), Literal("bool")),
     Let(TRUE, "x", type_create("i32"), Literal("i32")),
     Return(Literal("f64")),
     Identifier("u")}

\* a leaf under at most depth statements
RECURSIVE Nested(_)
Nested(depth) ==
    IF depth = 0 THEN Leaves
    ELSE Nested(depth - 1)
         \cup UNION {LoopWrappers(s) \cup PlainWrappers(s) : s \in Nested(depth - 1)}

MethodM(statements) ==
    [kind |-> "IMPL", struct_name |-> "S",
     functions |-> <<Function("m", <<[name |-> "self", type |-> StructType("S")]>>,
                              type_create("void"), statements)>>]

\* the statement in a function body, after a loop of the body, at top
\* level, and in the body of a method
NestedPrograms ==
    UNION {{<<Function("f", <<>>, type_create("void"), <<s>>)>>,
            <<Function("f", <<>>, type_create("void"), <<Loop(Block(<<>>)), s>>)>>,
            <<s>>,
            <<StructS, MethodM(<<s>>)>>} : s \in Nested(MaxDepth)}

\* the top-level declarations of a name: fn g, extern fn g, struct S and
\* extern struct S, and fn h for a name of its own
MaxDeclarations == 3

ExternStruct(name) == [kind |-> "STRUCT", name |-> name, is_extern |-> TRUE, fields |-> <<>>]

Declarations ==
    {FunctionG, ExternFunction("g", <<>>, type_create("void")), StructS, ExternStruct("S"),
     Function("h", <<>>, type_create("void"), <<>>)}

DeclarationPrograms == SeqsUpTo(Declarations, MaxDeclarations) \ {<<>>}

\* f() declares `let mut x` with a type and no initializer, a number or an
\* array of numbers, and then assigns to x or reads it, at most
\* MaxStatements times
Declared(type) == Let(TRUE, "x", type, NULLNODE)

UsesOfNumber == {Assignment(Identifier("x"), Literal("i32")), Identifier("x")}

UsesOfArray ==
    {Assignment(Index(Identifier("x"), Literal("i32")), Literal("i32")),
     Index(Identifier("x"), Literal("i32"))}

UninitializedPrograms ==
    {<<Function("f", <<>>, type_create("void"), <<Declared(type_create("i32"))>> \o uses)>> :
        uses \in SeqsUpTo(UsesOfNumber, MaxStatements)}
    \cup {<<Function("f", <<>>, type_create("void"),
                      <<Declared(ArrayType(type_create("i32"), 2))>> \o uses)>> :
              uses \in SeqsUpTo(UsesOfArray, MaxStatements)}

\* f() calls a function by a plain name or by a path name, with no argument
\* or one; g(v: i32) or struct S with impl S { fn m(self: S) } may come
\* before f
PlainCallPrograms ==
    {before \o <<Function("f", <<>>, type_create("void"), <<Call(Identifier(name), arguments)>>)>> :
        before \in {<<>>, <<StructS, MethodM(<<>>)>>,
                    <<Function("g", <<[name |-> "v", type |-> type_create("i32")]>>,
                               type_create("void"), <<>>)>>},
        name \in {"g", "u"} \cup {JoinPath(path, "::") :
                                    path \in {<<"S", "m">>, <<"T", "new">>, <<"S", "m", "new">>}},
        arguments \in {<<>>, <<Literal("i32")>>, <<Literal("bool")>>}}

\* struct S, struct T and impl S { fn m(self: S or T) }, the body of m
\* empty or reading self
StructT == [StructS EXCEPT !.name = "T"]

SelfPrograms ==
    {<<StructS, StructT,
       [kind |-> "IMPL", struct_name |-> "S",
        functions |-> <<Function("m", <<[name |-> "self", type |-> StructType(name)]>>,
                                 type_create("void"), body)>>]>> :
        name \in {"S", "T"},
        body \in {<<>>, <<Identifier("self")>>, <<Field(Identifier("self"), "a")>>}}

AnalysisPrograms ==
    NestedPrograms \cup DeclarationPrograms \cup UninitializedPrograms \cup PlainCallPrograms
    \cup SelfPrograms

AnalysisInit ==
    /\ ast \in AnalysisPrograms
    /\ analyzer = semantic_create
    /\ spc = "structs"
    /\ LexIdle /\ DrvIdle /\ ParIdle /\ SymIdle /\ TypIdle /\ GenIdle

SpecAnalysis == AnalysisInit /\ [][SemNext]_vars


----------------------------------------------------------------------------
\* CODE GENERATION (src/codegen.c)
\*
\* The generator is the CodeGenerator struct; out is the text written to
\* gen->output, as the sequence of the pieces the calls of codegen_write
\* wrote; literals lists, for each struct literal emitted, its name and
\* whether it was written as a bare braced list; printed lists, for each
\* argument of print or println written into a printf, its position in the
\* call and the format, the cast and the ?: it was written with.

codegen_create ==
    [out |-> <<>>, indent_level |-> 0, in_struct_init |-> FALSE, literals |-> <<>>,
     printed |-> <<>>]

codegen_write(G, text) == [G EXCEPT !.out = Append(@, text)]

RECURSIVE Spaces(_)
Spaces(n) == IF n = 0 THEN <<>> ELSE <<"    ">> \o Spaces(n - 1)

codegen_indent(G) == [G EXCEPT !.out = @ \o Spaces(G.indent_level)]

codegen_writeln(G, text) == codegen_write(codegen_write(codegen_indent(G), text), "\n")

get_c_type(kind) ==
    CASE kind = "i8" -> "int8_t"
      [] kind = "i16" -> "int16_t"
      [] kind = "i32" -> "int32_t"
      [] kind = "i64" -> "int64_t"
      [] kind = "u8" -> "uint8_t"
      [] kind = "u16" -> "uint16_t"
      [] kind = "u32" -> "uint32_t"
      [] kind = "u64" -> "uint64_t"
      [] kind = "f32" -> "float"
      [] kind = "f64" -> "double"
      [] kind = "bool" -> "_Bool"
      [] kind = "char" -> "char"
      [] kind = "void" -> "void"
      [] kind = "str" -> "const char*"
      [] OTHER -> "unknown"

RECURSIVE generate_type(_, _)
generate_type(G, type) ==
    IF type = NULL THEN codegen_write(G, "void")
    ELSE CASE type.kind = "array" -> generate_type(G, type.element_type)
           [] type.kind = "pointer" -> codegen_write(generate_type(G, type.pointed_type), "*")
           [] type.kind = "reference" ->
                  IF type.is_mutable
                  THEN codegen_write(generate_type(G, type.referenced_type), "*")
                  ELSE codegen_write(generate_type(codegen_write(G, "const "),
                                                   type.referenced_type), "*")
           [] type.kind = "struct" -> codegen_write(G, type.name)
           [] OTHER -> codegen_write(G, get_c_type(type.kind))

\* generate_expression and generate_statement call each other through the
\* statements and expressions they hold; Generate(f, G, node) is the call of
\* one of them by name
RECURSIVE Generate(_, _, _)

RECURSIVE GenerateList(_, _, _), GenerateFields(_, _, _)

\* the loop that writes expressions separated by ", "
GenerateList(G, nodes, i) ==
    IF i > Len(nodes) THEN G
    ELSE GenerateList(Generate("expression", IF i > 1 THEN codegen_write(G, ", ") ELSE G, nodes[i]),
                      nodes, i + 1)

BinaryOperatorText(op) ==
    CASE op = "PLUS" -> " + " [] op = "MINUS" -> " - " [] op = "STAR" -> " * "
      [] op = "SLASH" -> " / " [] op = "PERCENT" -> " % " [] op = "EQ_EQ" -> " == "
      [] op = "NOT_EQ" -> " != " [] op = "LT" -> " < " [] op = "LT_EQ" -> " <= "
      [] op = "GT" -> " > " [] op = "GT_EQ" -> " >= " [] op = "AND_AND" -> " && "
      [] op = "OR_OR" -> " || " [] op = "AND" -> " & " [] op = "OR" -> " | "
      [] op = "XOR" -> " ^ " [] op = "LT_LT" -> " << " [] op = "GT_GT" -> " >> "
      [] OTHER -> " ? "

generate_binary_op(G, expr) ==
    LET l == Generate("expression", codegen_write(G, "("), expr.left)
        r == Generate("expression", codegen_write(l, BinaryOperatorText(expr.op)), expr.right)
    IN  codegen_write(r, ")")

generate_unary_op(G, expr) ==
    CASE expr.op = "MINUS" -> Generate("expression", codegen_write(G, "-"), expr.operand)
      [] expr.op = "NOT" -> Generate("expression", codegen_write(G, "!"), expr.operand)
      [] expr.op = "AND" ->
             IF expr.operand.data_type # NULL /\ expr.operand.data_type.kind = "array"
             THEN Generate("expression", G, expr.operand)
             ELSE Generate("expression", codegen_write(G, "&"), expr.operand)
      [] expr.op = "STAR" -> Generate("expression", codegen_write(G, "*"), expr.operand)
      [] OTHER -> Generate("expression", G, expr.operand)

type_is_signed(type) == type # NULL /\ type.kind \in {"i8", "i16", "i32", "i64", "f32", "f64"}

\* the print and println branches of generate_call; newline is the text
\* println puts before the closing quote of each format
GeneratePrint(G, expr, newline) ==
    LET arg_type == expr.arguments[1].data_type
        open(format, cast, ternary) ==
            [codegen_write(G, "printf(\"" \o format \o newline \o "\", " \o cast)
                EXCEPT !.printed = Append(@, [argument |-> 1, format |-> format, cast |-> cast,
                                              ternary |-> ternary, newline |-> newline # ""])]
        one(format, cast) ==
            codegen_write(Generate("expression", open(format, cast, FALSE), expr.arguments[1]), ")")
    IN  IF Len(expr.arguments) = 0 \/ arg_type = NULL
        THEN IF newline = "" THEN G ELSE codegen_write(G, "printf(\"\\n\")")
        ELSE CASE arg_type.kind = "str" -> one("%s", "")
               [] type_is_integral(arg_type) /\ type_is_signed(arg_type) ->
                      one("%lld", "(long long)")
               [] type_is_integral(arg_type) /\ ~type_is_signed(arg_type) ->
                      one("%llu", "(unsigned long long)")
               [] arg_type.kind \in FloatKinds -> one("%f", "")
               [] arg_type.kind = "bool" ->
                      codegen_write(codegen_write(
                          Generate("expression", open("%s", "", TRUE), expr.arguments[1]),
                          " ? \"true\" : \"false\""), ")")
               [] arg_type.kind = "char" -> one("%c", "")
               [] OTHER -> codegen_write(G, "printf(\"<unknown>" \o newline \o "\")")

generate_call(G, expr) ==
    LET function == expr.function
        arguments(G1) == codegen_write(GenerateList(G1, expr.arguments, 1), ")")
    IN  CASE function.kind = "FIELD" ->
                 LET obj_type == function.object.data_type
                     struct_name == IF obj_type # NULL /\ obj_type.kind = "struct"
                                    THEN obj_type.name ELSE NullName
                     G1 == codegen_write(G, struct_name \o "_" \o function.field_name \o "(")
                     G2 == Generate("expression", G1, function.object)
                 IN  IF struct_name # NullName
                     THEN arguments(IF Len(expr.arguments) > 0 THEN codegen_write(G2, ", ") ELSE G2)
                     ELSE codegen_write(G, "/* ERROR: method call on non-struct */")
          [] function.kind = "IDENTIFIER" /\ function.name = "println" ->
                 GeneratePrint(G, expr, "\\n")
          [] function.kind = "IDENTIFIER" /\ function.name = "print" ->
                 GeneratePrint(G, expr, "")
          [] function.kind = "IDENTIFIER" /\ function.name = "sqrt" ->
                 codegen_write(IF Len(expr.arguments) > 0
                               THEN Generate("expression", codegen_write(G, "sqrt("),
                                             expr.arguments[1])
                               ELSE codegen_write(G, "sqrt("), ")")
          [] OTHER -> arguments(codegen_write(Generate("expression", G, function), "("))

\* the text of a literal; the literals of the programs below have the
\* value 0
LiteralText(data_type) ==
    CASE data_type = NULL -> "/* untyped literal */"
      [] data_type.kind \in IntegralKinds -> "0"
      [] data_type.kind \in FloatKinds -> "0.000000"
      [] data_type.kind = "str" -> "\"\""
      [] data_type.kind = "bool" -> "0"
      [] data_type.kind = "char" -> "'0'"
      [] OTHER -> "/* unknown literal */"

\* "'%c'" of a char literal that has its value: a quote, the byte, a quote
WriteChar(G, char_value) ==
    codegen_write(codegen_write(codegen_write(G, "'"), char_value), "'")

\* the name of an identifier: what is before the first "::", then "_",
\* then what is after it
IdentifierText(name) ==
    IF name \in PathNames
    THEN LET path == CHOOSE path \in Paths : name = JoinPath(path, "::")
         IN  path[1] \o "_" \o JoinPath(Tail(path), "::")
    ELSE name

\* the loop over the fields of a struct literal
GenerateFields(G, expr, i) ==
    IF i > Len(expr.field_values) THEN G
    ELSE LET G1 == IF i > 1 THEN codegen_write(G, ", ") ELSE G
             G2 == codegen_write(G1, "." \o expr.field_names[i] \o " = ")
         IN  GenerateFields(Generate("expression", G2, expr.field_values[i]), expr, i + 1)

generate_struct_literal(G, expr) ==
    LET G1 == IF G.in_struct_init THEN codegen_write(G, "{")
              ELSE codegen_write(G, "(" \o expr.struct_name \o "){")
        G2 == [G1 EXCEPT !.in_struct_init = TRUE,
                         !.literals = Append(@, [struct_name |-> expr.struct_name,
                                                 bare |-> G.in_struct_init])]
        G3 == GenerateFields(G2, expr, 1)
    IN  codegen_write([G3 EXCEPT !.in_struct_init = FALSE], "}")

generate_expression(G, expr) ==
    IF expr = NULLNODE THEN G
    ELSE CASE expr.kind = "LITERAL" ->
                  IF expr.data_type # NULL /\ expr.data_type.kind = "char"
                     /\ "char_value" \in DOMAIN expr
                  THEN WriteChar(G, expr.char_value)
                  ELSE codegen_write(G, LiteralText(expr.data_type))
           [] expr.kind = "IDENTIFIER" -> codegen_write(G, IdentifierText(expr.name))
           [] expr.kind = "BINARY_OP" -> generate_binary_op(G, expr)
           [] expr.kind = "UNARY_OP" -> generate_unary_op(G, expr)
           [] expr.kind = "CAST" ->
                  Generate("expression",
                           codegen_write(generate_type(codegen_write(G, "("), expr.target_type), ")"),
                           expr.expression)
           [] expr.kind = "CALL" -> generate_call(G, expr)
           [] expr.kind = "INDEX" ->
                  codegen_write(Generate("expression",
                                         codegen_write(Generate("expression", G, expr.array), "["),
                                         expr.index), "]")
           [] expr.kind = "FIELD" ->
                  codegen_write(Generate("expression", G, expr.object), "." \o expr.field_name)
           [] expr.kind = "ASSIGNMENT" ->
                  Generate("expression",
                           codegen_write(Generate("expression", G, expr.target), " = "),
                           expr.value)
           [] expr.kind = "ARRAY_LITERAL" ->
                  codegen_write(GenerateList(codegen_write(G, "{"), expr.elements, 1), "}")
           [] expr.kind = "STRUCT_LITERAL" -> generate_struct_literal(G, expr)
           [] OTHER -> codegen_write(G, "/* unsupported expression */")

generate_let(G, stmt) ==
    LET G1 == IF ~stmt.is_mutable THEN codegen_write(G, "const ") ELSE G
        type == IF stmt.type = NULL /\ stmt.value # NULLNODE THEN stmt.value.data_type
                ELSE stmt.type
        value(G2) == IF stmt.value # NULLNODE
                     THEN Generate("expression", codegen_write(G2, " = "), stmt.value)
                     ELSE G2
    IN  IF type = NULL
        THEN codegen_write(value(codegen_write(codegen_write(G1, "/* ERROR: missing type */ void"),
                                               " " \o stmt.name)), ";")
        ELSE IF type.kind = "array"
        THEN codegen_write(value(codegen_write(generate_type(G1, type.element_type),
                                               " " \o stmt.name \o "[" \o ToString(type.size) \o "]")),
                           ";")
        ELSE codegen_write(value(codegen_write(generate_type(G1, type), " " \o stmt.name)), ";")

generate_if(G, stmt) ==
    LET c == Generate("expression", codegen_write(G, "if ("), stmt.condition)
        t == Generate("statement", codegen_write(c, ") "), stmt.then_branch)
    IN  IF stmt.else_branch # NULLNODE
        THEN Generate("statement", codegen_write(codegen_indent(t), "else "), stmt.else_branch)
        ELSE t

generate_while(G, stmt) ==
    Generate("statement",
             codegen_write(Generate("expression", codegen_write(G, "while ("), stmt.condition), ") "),
             stmt.body)

generate_for(G, stmt) ==
    LET s == Generate("expression", codegen_write(G, "for (int " \o stmt.iterator \o " = "),
                      stmt.start)
        e == Generate("expression", codegen_write(s, "; " \o stmt.iterator \o " < "), stmt.end)
    IN  Generate("statement", codegen_write(e, "; " \o stmt.iterator \o "++) "), stmt.body)

generate_loop(G, stmt) == Generate("statement", codegen_write(G, "while (1) "), stmt.body)

\* the loop over the statements of a block
RECURSIVE GenerateStatements(_, _, _)
GenerateStatements(G, statements, i) ==
    IF i > Len(statements) THEN G
    ELSE GenerateStatements(
             codegen_write(Generate("statement", codegen_indent(G), statements[i]), "\n"),
             statements, i + 1)

generate_statement(G, stmt) ==
    IF stmt = NULLNODE THEN G
    ELSE CASE stmt.kind = "BLOCK" ->
                  LET G1 == [codegen_writeln(G, "{") EXCEPT !.indent_level = @ + 1]
                      G2 == [GenerateStatements(G1, stmt.statements, 1)
                                EXCEPT !.indent_level = @ - 1]
                  IN  codegen_write(codegen_indent(G2), "}")
           [] stmt.kind = "LET" -> generate_let(G, stmt)
           [] stmt.kind = "IF" -> generate_if(G, stmt)
           [] stmt.kind = "WHILE" -> generate_while(G, stmt)
           [] stmt.kind = "FOR" -> generate_for(G, stmt)
           [] stmt.kind = "LOOP" -> generate_loop(G, stmt)
           [] stmt.kind = "RETURN" ->
                  codegen_write(IF stmt.value # NULLNODE
                                THEN Generate("expression",
                                              codegen_write(codegen_write(G, "return"), " "),
                                              stmt.value)
                                ELSE codegen_write(G, "return"), ";")
           [] stmt.kind = "BREAK" -> codegen_write(G, "break;")
           [] stmt.kind = "CONTINUE" -> codegen_write(G, "continue;")
           [] OTHER -> codegen_write(Generate("expression", G, stmt), ";")

\* a call is made on the generator as the writes before it have left it,
\* at an indent_level that is never negative
Generate(f, G, node) ==
    CASE G.indent_level >= 0 /\ f = "expression" -> generate_expression(G, node)
      [] G.indent_level >= 0 /\ f = "statement" -> generate_statement(G, node)

\* the parameter list of generate_function and of generate_impl
RECURSIVE GenerateParams(_, _, _)
GenerateParams(G, params, i) ==
    IF Len(params) = 0 THEN codegen_write(G, "void")
    ELSE IF i > Len(params) THEN G
    ELSE GenerateParams(
             codegen_write(generate_type(IF i > 1 THEN codegen_write(G, ", ") ELSE G,
                                         params[i].type), " " \o params[i].name),
             params, i + 1)

\* a function written under a name: its own, or Struct_method
GenerateFunctionAs(G, func, name) ==
    LET G1 == codegen_write(generate_type(G, func.return_type), " " \o name \o "(")
        G2 == codegen_write(GenerateParams(G1, func.params, 1), ") ")
    IN  codegen_write(Generate("statement", G2, func.body), "\n\n")

generate_function(G, func) == GenerateFunctionAs(G, func, func.name)

RECURSIVE GenerateStructFields(_, _, _)
GenerateStructFields(G, fields, i) ==
    IF i > Len(fields) THEN G
    ELSE GenerateStructFields(
             codegen_write(generate_type(codegen_indent(G), fields[i].type),
                           " " \o fields[i].name \o ";\n"),
             fields, i + 1)

generate_struct_Extern(G, struct_def) ==
    LET G1 == [codegen_writeln(G, "typedef struct " \o struct_def.name \o " {")
                  EXCEPT !.indent_level = @ + 1]
        G2 == [GenerateStructFields(G1, struct_def.fields, 1) EXCEPT !.indent_level = @ - 1]
    IN  codegen_writeln(G2, "} " \o struct_def.name \o ";\n")

generate_struct(G, struct_def) ==
    IF struct_def.is_extern THEN G
    ELSE LET G1 == [codegen_writeln(G, "typedef struct " \o struct_def.name \o " {")
                       EXCEPT !.indent_level = @ + 1]
             G2 == [GenerateStructFields(G1, struct_def.fields, 1) EXCEPT !.indent_level = @ - 1]
         IN  codegen_writeln(G2, "} " \o struct_def.name \o ";\n")

RECURSIVE GenerateMethods(_, _, _)
GenerateMethods(G, impl, i) ==
    IF i > Len(impl.functions) THEN G
    ELSE GenerateMethods(
             GenerateFunctionAs(G, impl.functions[i],
                                impl.struct_name \o "_" \o impl.functions[i].name),
             impl, i + 1)

generate_impl(G, impl) == GenerateMethods(G, impl, 1)

\* one of the loops of generate_node over the items of the program
RECURSIVE GenerateItems(_, _, _, _)
GenerateItems(G, items, kind, i) ==
    IF i > Len(items) THEN G
    ELSE IF items[i].kind # kind THEN GenerateItems(G, items, kind, i + 1)
    ELSE GenerateItems(
             CASE kind = "INCLUDE" ->
                      codegen_writeln(G, IF items[i].is_system
                                         THEN "#include <" \o items[i].path \o ">"
                                         ELSE "#include \"" \o items[i].path \o "\"")
               [] kind = "STRUCT" -> generate_struct(G, items[i])
               [] kind = "IMPL" -> generate_impl(G, items[i])
               [] kind = "FUNCTION" -> generate_function(G, items[i]),
             items, kind, i + 1)

StandardIncludes ==
    <<"#include <stdio.h>", "#include <stdlib.h>", "#include <stdint.h>",
      "#include <stdbool.h>", "#include <math.h>">>

RECURSIVE WriteLines(_, _, _)
WriteLines(G, lines, i) ==
    IF i > Len(lines) THEN G ELSE WriteLines(codegen_writeln(G, lines[i]), lines, i + 1)
----------------------------------------------------------------------------
\* THE SYMBOL TABLE ON ITS OWN (src/symbol_table.c): any sequence of at most
\* MaxCalls calls that enter a scope, exit one or define a name

MaxCalls == 5

SymbolNames == {"x", "y"}

SymbolTypes == {type_create("i32"), type_create("f64")}

Called(op, name, type, ok) ==
    [op |-> op, name |-> name, type |-> type, ok |-> ok, before |-> table.scopes,
     calls |-> last.calls + 1,
     refused |-> last.refused + (IF op = "define" /\ ~ok THEN 1 ELSE 0)]

SymInit ==
    /\ table = semantic_create
    /\ last = [op |-> "create", name |-> NullName, type |-> NULL, ok |-> TRUE,
               before |-> <<>>, calls |-> 0, refused |-> 0]
    /\ LexIdle /\ DrvIdle /\ ParIdle /\ SemIdle /\ TypIdle /\ GenIdle

TableEnterScope ==
    /\ last.calls < MaxCalls
    /\ table' = symbol_table_enter_scope(table, "BLOCK", NULL)
    /\ last' = Called("enter", NullName, NULL, TRUE)
    /\ UNCHANGED <<lexVars, drvVars, parVars, semVars, typVars, genVars>>

TableExitScope ==
    /\ last.calls < MaxCalls
    /\ table' = symbol_table_exit_scope(table)
    /\ last' = Called("exit", NullName, NULL, TRUE)
    /\ UNCHANGED <<lexVars, drvVars, parVars, semVars, typVars, genVars>>

TableDefine ==
    /\ last.calls < MaxCalls
    /\ \E name \in SymbolNames, type \in SymbolTypes :
          LET d == symbol_table_define(table, name, "VARIABLE", type, FALSE)
          IN  /\ table' = d.A
              /\ last' = Called("define", name, type, d.ok)
    /\ UNCHANGED <<lexVars, drvVars, parVars, semVars, typVars, genVars>>

SymNext == TableEnterScope \/ TableExitScope \/ TableDefine

SpecSymbols == SymInit /\ [][SymNext]_vars

----------------------------------------------------------------------------
\* THE TYPE RELATION ON ITS OWN (src/semantic.c): a call of
\* semantic_check_types_compatible on two types, and the call with the two
\* exchanged.  The types are the primitives and the named structs under at
\* most MaxTypeDepth array, pointer or reference constructors.

MaxTypeDepth == 1

PointerType(pointed_type) == [kind |-> "pointer", pointed_type |-> pointed_type]

PrimitiveKinds == {"i32", "u8", "f32", "f64", "bool", "void"}

RECURSIVE TypesUpTo(_)
TypesUpTo(depth) ==
    IF depth = 0 THEN {type_create(k) : k \in PrimitiveKinds} \cup {StructType(n) : n \in {"S", "T"}}
    ELSE LET inner == TypesUpTo(depth - 1)
         IN  inner
             \cup {ArrayType(t, n) : t \in inner, n \in {1, 2}}
             \cup {PointerType(t) : t \in inner}
             \cup {ReferenceType(t, m) : t \in inner, m \in BOOLEAN}

TypInit ==
    /\ operands \in TypesUpTo(MaxTypeDepth) \X TypesUpTo(MaxTypeDepth)
    /\ verdict = <<>>
    /\ LexIdle /\ DrvIdle /\ ParIdle /\ SemIdle /\ SymIdle /\ GenIdle

\* died is TRUE when the call reads through a null pointer
CompareTypes ==
    /\ verdict = <<>>
    /\ verdict' =
          [forward |-> semantic_check_types_compatible(operands[1], operands[2]),
           backward |-> semantic_check_types_compatible(operands[2], operands[1]),
           died |-> \/ CompatibleReadsNull(operands[1], operands[2])
                    \/ CompatibleReadsNull(operands[2], operands[1])]
    /\ UNCHANGED <<operands, lexVars, drvVars, parVars, semVars, symVars, genVars>>

TypNext == CompareTypes

SpecTypes == TypInit /\ [][TypNext]_vars

----------------------------------------------------------------------------
\* THE LOCATION OF A DIAGNOSTIC (src/parser.c, src/ast.c, src/semantic.c):
\* a function of the parser creates a node while its cursor is just after a
\* token, and the analysis reports a diagnostic on the node.

MaxLine == 2

MaxColumn == 3

\* the line and the column of a token, both counted from 1
TokenLocations == [line : 1..MaxLine, column : 1..MaxColumn]

\* calloc leaves the location of the node at line 0, column 0
ast_create_node(kind) == [kind |-> kind, location |-> [line |-> 0, column |-> 0]]

\* token is NULL or the location of a token; prev is the location of the
\* token before the cursor
create_node_with_location(current, kind, token, prev) ==
    IF token # NULL THEN [ast_create_node(kind) EXCEPT !.location = token]
    ELSE IF current > 0 THEN [ast_create_node(kind) EXCEPT !.location = prev]
    ELSE ast_create_node(kind)

\* the functions of the parser that create a node of the kinds the analysis
\* reports on; located is TRUE for those that call create_node_with_location
\* with a token and FALSE for those that call ast_create_node
NodeSites ==
    {[function |-> f, kind |-> "BINARY_OP", located |-> TRUE] :
         f \in {"logical_or", "equality", "comparison", "term", "factor"}}
    \cup {[function |-> "primary", kind |-> k, located |-> TRUE] :
              k \in {"IDENTIFIER", "STRUCT_LITERAL", "ARRAY_LITERAL"}}
    \cup {[function |-> "call", kind |-> k, located |-> TRUE] : k \in {"CALL", "INDEX", "FIELD"}}
    \cup {[function |-> "unary", kind |-> "UNARY_OP", located |-> l] : l \in BOOLEAN}
    \cup {[function |-> "assignment", kind |-> "ASSIGNMENT", located |-> TRUE],
          [function |-> "let_statement", kind |-> "LET", located |-> TRUE],
          [function |-> "impl_block", kind |-> "IMPL", located |-> TRUE],
          [function |-> "if_statement", kind |-> "IF", located |-> FALSE],
          [function |-> "while_statement", kind |-> "WHILE", located |-> FALSE],
          [function |-> "for_statement", kind |-> "FOR", located |-> FALSE],
          [function |-> "return_statement", kind |-> "RETURN", located |-> FALSE],
          [function |-> "break_statement", kind |-> "BREAK", located |-> FALSE],
          [function |-> "continue_statement", kind |-> "CONTINUE", located |-> FALSE],
          [function |-> "function_declaration", kind |-> "FUNCTION", located |-> FALSE],
          [function |-> "struct_declaration", kind |-> "STRUCT", located |-> FALSE]}

\* the diagnostics that the analysis reports on a node of each kind
DiagnosticsOn(kind) ==
    CASE kind = "BINARY_OP" -> {"Arithmetic operation requires numeric types",
                                "Comparison requires numeric types"}
      [] kind = "UNARY_OP" -> {"Negation requires numeric type",
                               "Cannot dereference non-pointer type"}
      [] kind = "IDENTIFIER" -> {"Undefined variable", "Use of uninitialized variable"}
      [] kind = "CALL" -> {"Undefined function", "Undefined method"}
      [] kind = "INDEX" -> {"Cannot index non-array or pointer type"}
      [] kind = "FIELD" -> {"Cannot access field of non-struct type"}
      [] kind = "ASSIGNMENT" -> {"Cannot assign to immutable variable",
                                 "Type mismatch in assignment"}
      [] kind = "ARRAY_LITERAL" -> {"Cannot infer type of empty array literal"}
      [] kind = "STRUCT_LITERAL" -> {"Undefined struct"}
      [] kind = "LET" -> {"Type mismatch in variable declaration",
                          "Variable already defined in this scope"}
      [] kind = "IF" -> {"If condition must be boolean"}
      [] kind = "WHILE" -> {"While condition must be boolean"}
      [] kind = "FOR" -> {"For loop range must be integral"}
      [] kind = "RETURN" -> {"Return statement outside function", "Return type mismatch",
                             "Function expects return value"}
      [] kind = "BREAK" -> {"Break statement outside loop"}
      [] kind = "CONTINUE" -> {"Continue statement outside loop"}
      [] kind = "FUNCTION" -> {"Function already defined"}
      [] kind = "STRUCT" -> {"Struct already defined"}
      [] kind = "IMPL" -> {"Implementing methods for undefined struct"}

\* semantic_error_node with the location it reads from the node
ReportOn(A, n, message) ==
    LET A1 == semantic_error_node(A, message, NullName)
        e == A1.errors[Len(A1.errors)]
    IN  [A1 EXCEPT !.errors =
            Append(SubSeq(@, 1, Len(@) - 1),
                   [message |-> e.message, arg |-> e.arg,
                    line |-> n.location.line, column |-> n.location.column])]

LocInit ==
    /\ ast = <<>>
    /\ analyzer = semantic_create
    /\ spc = "parsing"
    /\ LexIdle /\ DrvIdle /\ ParIdle /\ SymIdle /\ TypIdle /\ GenIdle

\* a function of the parser creates its node, the token it has just
\* consumed in hand
CreateNode ==
    /\ spc = "parsing"
    /\ \E site \in NodeSites, token \in TokenLocations :
          ast' = <<IF site.located
                   THEN create_node_with_location(1, site.kind, token, token)
                   ELSE ast_create_node(site.kind)>>
    /\ spc' = "analysing"
    /\ UNCHANGED <<analyzer, lexVars, drvVars, parVars, symVars, typVars, genVars>>

\* a check of the analysis reports on the node
ReportDiagnostic ==
    /\ spc = "analysing"
    /\ \E message \in DiagnosticsOn(ast[1].kind) :
          analyzer' = ReportOn(analyzer, ast[1], message)
    /\ spc' = "reported"
    /\ UNCHANGED <<ast, lexVars, drvVars, parVars, symVars, typVars, genVars>>

LocNext == CreateNode \/ ReportDiagnostic

SpecLocations == LocInit /\ [][LocNext]_vars

----------------------------------------------------------------------------
\* THE ANALYSIS FOLLOWED BY THE CODE GENERATION (src/main.c): the tree that
\* semantic_analyze has accepted is handed to codegen_generate, which writes
\* the prologue and then makes one loop over the program for the structs,
\* one for the impl blocks and one for the functions.

Include(path, is_system) == [kind |-> "INCLUDE", path |-> path, is_system |-> is_system]

\* the items of the programs whose order is varied
MaxItems == 3

Items ==
    {Include("a.h", TRUE), Include("b.h", FALSE), StructS, ExternStruct("T"), MethodM(<<>>),
     FunctionG, Function("h", <<>>, type_create("i32"), <<Return(Literal("i32"))>>),
     ExternFunction("e", <<>>, type_create("void")),
     Let(FALSE, "x", type_create("i32"), Literal("i32"))}

ItemPrograms == SeqsUpTo(Items, MaxItems) \ {<<>>}

\* f(p: receiver) calls a method of S on p
Receivers ==
    {StructType("S"), ReferenceType(StructType("S"), FALSE), ReferenceType(StructType("S"), TRUE),
     PointerType(StructType("S"))}

ImplMN ==
    [kind |-> "IMPL", struct_name |-> "S",
     functions |-> <<Function("m", <<[name |-> "self", type |-> StructType("S")]>>,
                              type_create("void"), <<>>),
                     Function("n", <<[name |-> "self", type |-> StructType("S")],
                                     [name |-> "v", type |-> type_create("i32")]>>,
                              type_create("void"), <<>>)>>]

MethodCalls ==
    {Call(Field(Identifier("p"), "m"), <<>>),
     Call(Field(Identifier("p"), "n"), <<Literal("i32")>>),
     Call(Field(Identifier("p"), "n"), <<Literal("f64")>>),
     Call(Field(Identifier("p"), "n"), <<>>)}

CallPrograms ==
    {<<StructS, ImplMN, Function("f", <<[name |-> "p", type |-> receiver]>>,
                                 type_create("void"), <<c>>)>> :
        receiver \in Receivers, c \in MethodCalls}

\* struct In { v: i32 }  struct Out { a: In, b: In }
\* struct Top { o: Out, i: In }, and f() with lets of struct literals
StructIn == [kind |-> "STRUCT", name |-> "In", is_extern |-> FALSE,
             fields |-> <<[name |-> "v", type |-> type_create("i32")]>>]

StructOut == [kind |-> "STRUCT", name |-> "Out", is_extern |-> FALSE,
              fields |-> <<[name |-> "a", type |-> StructType("In")],
                           [name |-> "b", type |-> StructType("In")]>>]

StructTop == [kind |-> "STRUCT", name |-> "Top", is_extern |-> FALSE,
              fields |-> <<[name |-> "o", type |-> StructType("Out")],
                           [name |-> "i", type |-> StructType("In")]>>]

LiteralIn == StructLiteral("In", <<"v">>, <<Literal("i32")>>)

LiteralsOut ==
    {StructLiteral("Out", names, <<LiteralIn, LiteralIn>>) : names \in {<<"a", "b">>, <<"b", "a">>}}
    \cup {StructLiteral("Out", <<"a">>, <<LiteralIn>>)}

LiteralsTop ==
    {StructLiteral("Top", <<"o", "i">>, <<o, LiteralIn>>) : o \in LiteralsOut}
    \cup {StructLiteral("Top", <<"i", "o">>, <<LiteralIn, o>>) : o \in LiteralsOut}
    \cup {StructLiteral("Top", <<"o">>, <<o>>) : o \in LiteralsOut}

LiteralLets ==
    {Let(FALSE, "o", StructType(l.struct_name), l) : l \in {LiteralIn} \cup LiteralsOut \cup LiteralsTop}

LiteralPrograms ==
    {<<StructIn, StructOut, StructTop, Function("f", <<>>, type_create("void"), body)>> :
        body \in {<<l>> : l \in LiteralLets}
                 \cup {<<l, Let(TRUE, "q", StructType("In"), LiteralIn)>> : l \in LiteralLets}}

\* f(n: u8, h: f32) calls print or println with at most MaxArguments
\* arguments
MaxArguments == 2

PrintValues ==
    {Literal(k) : k \in {"str", "i32", "f64", "bool", "char"}}
    \cup {Identifier("n"), Identifier("h")}

PrintPrograms ==
    {<<Function("f", <<[name |-> "n", type |-> type_create("u8")],
                       [name |-> "h", type |-> type_create("f32")]>>, type_create("void"),
                <<Call(Identifier(name), arguments)>>)>> :
        name \in {"print", "println"}, arguments \in SeqsUpTo(PrintValues, MaxArguments)}

\* f(p: S) calls a function by a path name of two or three identifiers;
\* S::m is the method of impl S
PathCallPrograms ==
    {<<StructS, MethodM(<<>>),
       Function("f", <<[name |-> "p", type |-> StructType("S")]>>, type_create("void"),
                <<Call(Identifier(JoinPath(path, "::")), <<Identifier("p")>>)>>)>> :
        path \in {<<"S", "m">>, <<"T", "new">>, <<"S", "m", "new">>, <<"T", "new", "m">>}}

\* the node assignment() makes of target op value
AssignmentWith(op, target, value) == [Assignment(target, value) EXCEPT !.op = op]

\* f() declares x: i32 or f64, mutable, and assigns to it with one of the
\* five operators
AssignmentPrograms ==
    {<<Function("f", <<>>, type_create("void"),
                <<Let(TRUE, "x", type_create(k), Literal(k)),
                  AssignmentWith(op, Identifier("x"), Literal(k))>>)>> :
        op \in AssignmentOps, k \in {"i32", "f64"}}

GenPrograms ==
    ItemPrograms \cup CallPrograms \cup LiteralPrograms \cup PrintPrograms
    \cup PathCallPrograms \cup AssignmentPrograms

GenInit ==
    /\ ast \in GenPrograms
    /\ analyzer = semantic_create
    /\ spc = "structs"
    /\ LexIdle /\ DrvIdle /\ ParIdle /\ SymIdle /\ TypIdle /\ GenIdle

\* main goes on to the code generation when semantic_analyze returned true
GenerateStart ==
    /\ spc = "done" /\ analyzer.success
    /\ gpc = "idle"
    /\ program' = ast
    /\ generator' = codegen_create
    /\ gpc' = "prologue"
    /\ UNCHANGED <<lexVars, drvVars, parVars, semVars, symVars, typVars>>

Banner == "/* Generated C code from JFM compiler */"

\* the lines generate_node writes first, then its loop over the includes
GeneratePrologue ==
    /\ gpc = "prologue"
    /\ generator' =
          codegen_writeln(
              GenerateItems(WriteLines(generator, <<Banner>> \o StandardIncludes, 1),
                            program, "INCLUDE", 1),
              "")
    /\ gpc' = "structs"
    /\ UNCHANGED <<program, lexVars, drvVars, parVars, semVars, symVars, typVars>>

GenerateStructs ==
    /\ gpc = "structs"
    /\ generator' = GenerateItems(generator, program, "STRUCT", 1)
    /\ gpc' = "impls"
    /\ UNCHANGED <<program, lexVars, drvVars, parVars, semVars, symVars, typVars>>

GenerateImpls ==
    /\ gpc = "impls"
    /\ generator' = GenerateItems(generator, program, "IMPL", 1)
    /\ gpc' = "functions"
    /\ UNCHANGED <<program, lexVars, drvVars, parVars, semVars, symVars, typVars>>

\* the last loop, and the return of codegen_generate
GenerateFunctions ==
    /\ gpc = "functions"
    /\ generator' = GenerateItems(generator, program, "FUNCTION", 1)
    /\ gpc' = "done"
    /\ UNCHANGED <<program, lexVars, drvVars, parVars, semVars, symVars, typVars>>

GenNext ==
    \/ AnalyzeStructs \/ AnalyzeImpls \/ AnalyzeItem \/ AnalyzeReturn
    \/ GenerateStart \/ GeneratePrologue \/ GenerateStructs \/ GenerateImpls
    \/ GenerateFunctions

SpecCodegen == GenInit /\ [][GenNext]_vars

(***************************************************************************)
(* A CHARACTER LITERAL FROM THE SOURCE TO THE C TEXT                       *)
(* (part_003 scan_char, parser.c primary, codegen.c generate_expression)   *)
(***************************************************************************)
\* the source is a quote followed by at most MaxChars bytes
MaxChars == 3

CharBytes == {"a", "n", "t", "0", "\\", "'", "\"", "\n"}

CharSources == {<<"'">> \o body : body \in SeqsUpTo(CharBytes, MaxChars)}

CharInit ==
    /\ source \in CharSources
    /\ lexer = lexer_create
    /\ lpc = "loop"
    /\ DrvIdle /\ ParIdle /\ SemIdle /\ SymIdle /\ TypIdle /\ GenIdle

\* primary() on a CHAR_LITERAL token: a literal of type char with the value
\* of the token
primary_char(token) ==
    [kind |-> "LITERAL", data_type |-> type_create("char"), char_value |-> token.char_value]

\* the first token of the source is a character literal: primary() makes
\* its node
PrimaryChar ==
    /\ lpc = "done" /\ gpc = "idle"
    /\ lexer.tokens[1].type = "CHAR_LITERAL"
    /\ program' = <<primary_char(lexer.tokens[1])>>
    /\ generator' = codegen_create
    /\ gpc' = "literal"
    /\ UNCHANGED <<lexVars, drvVars, parVars, semVars, symVars, typVars>>

\* generate_expression on the node
GenerateChar ==
    /\ gpc = "literal"
    /\ generator' = generate_expression(generator, program[1])
    /\ gpc' = "done"
    /\ UNCHANGED <<program, lexVars, drvVars, parVars, semVars, symVars, typVars>>

CharNext == ScanLoopIter \/ ScanLoopExit \/ ScanAppendEof \/ PrimaryChar \/ GenerateChar

SpecCharLiteral == CharInit /\ [][CharNext]_vars

----------------------------------------------------------------------------
\* Properties of the parser

\* stuck_count as the next pass of the loop of parser_parse will set it
NextStuckCount ==
    IF parser.current = parser.prev_position THEN parser.stuck_count + 1 ELSE 0

ParPcRank == CASE ppc = "loop" -> 1 [] ppc = "sync" -> 2 [] OTHER -> 0

\* what is left to do: the tokens not yet consumed, then the passes the
\* loop may still make without moving, then the steps left in this pass
ParMeasure ==
    100 * (Len(tokens) - parser.current) + 4 * (12 - NextStuckCount) + ParPcRank

\* C9: parser_parse terminates and returns the Program node on every token
\* sequence that ends with EOF: every step of the parse takes it closer to
\* its return, no loop goes on without consuming, and no step ends the
\* parse in any other way than by going on or returning.
C9_ParseReturns ==
    [][/\ ParMeasure' < ParMeasure
       /\ ParMeasure' >= 0
       /\ ppc' \in {"loop", "sync", "done"}]_vars

\* C10: a diagnostic leaves the parser in panic mode and no other diagnostic
\* is recorded before synchronize has run; synchronize clears panic mode,
\* only moves the cursor forward, and leaves it just after a `;`, on a
\* token that starts a declaration or a statement, or on EOF.
C10_PanicAndSynchronize ==
    LET trace == parser.trace
        n == Len(trace)
    IN  /\ \A i \in 1..(n - 1) : trace[i].ev = "diag" => trace[i + 1].ev = "sync"
        /\ n > 0 => (parser.panic_mode <=> trace[n].ev = "diag")
        /\ n = 0 => ~parser.panic_mode
        /\ \A i \in 1..n :
              trace[i].ev = "sync" =>
                  /\ trace[i].to >= trace[i].from
                  /\ \/ tokens[trace[i].to + 1] = "EOF"
                     \/ tokens[trace[i].to + 1] \in SyncTokens
                     \/ trace[i].to >= 1 /\ tokens[trace[i].to] = "SEMICOLON"

----------------------------------------------------------------------------
\* Properties of the semantic analysis

\* the nodes a node points to
Children(n) ==
    CASE n.kind \in {"BINARY_OP"} -> <<n.left, n.right>>
      [] n.kind = "UNARY_OP" -> <<n.operand>>
      [] n.kind = "CAST" -> <<n.expression>>
      [] n.kind = "CALL" -> <<n.function>> \o n.arguments
      [] n.kind = "INDEX" -> <<n.array, n.index>>
      [] n.kind = "FIELD" -> <<n.object>>
      [] n.kind = "ASSIGNMENT" -> <<n.target, n.value>>
      [] n.kind = "ARRAY_LITERAL" -> n.elements
      [] n.kind = "STRUCT_LITERAL" -> n.field_values
      [] n.kind = "LET" -> <<n.value>>
      [] n.kind = "IF" -> <<n.condition, n.then_branch, n.else_branch>>
      [] n.kind = "WHILE" -> <<n.condition, n.body>>
      [] n.kind = "FOR" -> <<n.start, n.end, n.body>>
      [] n.kind = "LOOP" -> <<n.body>>
      [] n.kind = "RETURN" -> <<n.value>>
      [] n.kind = "BLOCK" -> n.statements \o <<n.final_expr>>
      [] n.kind = "FUNCTION" -> <<n.body>>
      [] n.kind = "IMPL" -> n.functions
      [] OTHER -> <<>>

\* some expression node at or below n has no data_type
RECURSIVE HasUntyped(_)
HasUntyped(n) ==
    \/ n.kind \in ExpressionKinds /\ n.data_type = NULL
    \/ \E i \in 1..Len(Children(n)) : HasUntyped(Children(n)[i])

\* C2: when semantic_analyze returns true, every expression node reachable
\* from the Program root carries a resolved data_type.
C2_EveryExpressionTyped ==
    (spc = "done" /\ analyzer.success) => \A i \in 1..Len(ast) : ~HasUntyped(ast[i])

\* the names of the top-level functions of the program
TopLevelFunctions == {ast[i].name : i \in {j \in 1..Len(ast) : ast[j].kind = "FUNCTION"}}

\* C3: every top-level function is registered before any function body is
\* checked, so no call of a function that the file defines, earlier or
\* later than the caller, is reported as undefined.
C3_ForwardReferences ==
    spc = "done" =>
        \A i \in 1..Len(analyzer.errors) :
            analyzer.errors[i].message = "Undefined function"
                => analyzer.errors[i].arg \notin TopLevelFunctions

\* the identifier an assignment target is reached from
RECURSIVE RootName(_)
RootName(target) ==
    CASE target.kind = "IDENTIFIER" -> target.name
      [] target.kind = "INDEX" -> RootName(target.array)
      [] target.kind = "FIELD" -> RootName(target.object)
      [] target.kind = "UNARY_OP" -> RootName(target.operand)
      [] OTHER -> NullName

\* some assignment at or below n has a target reached from one of names
RECURSIVE AssignsThrough(_, _)
AssignsThrough(n, names) ==
    \/ n.kind = "ASSIGNMENT" /\ RootName(n.target) \in names
    \/ \E i \in 1..Len(Children(n)) : AssignsThrough(Children(n)[i], names)

\* the functions and the methods of the program
AllFunctions ==
    {ast[i] : i \in {j \in 1..Len(ast) : ast[j].kind = "FUNCTION"}}
    \cup UNION {{ast[i].functions[k] : k \in 1..Len(ast[i].functions)} :
                   i \in {j \in 1..Len(ast) : ast[j].kind = "IMPL"}}

ParamNames(func) == {func.params[i].name : i \in 1..Len(func.params)}

\* C4: an assignment that mutates through an immutable binding produces a
\* diagnostic, in a function as in a method.  Parameters are immutable
\* bindings, so a program one of whose bodies assigns to a parameter, to a
\* field or an element of one, or through one that is a `&` reference,
\* does not pass the analysis without a diagnostic.
C4_ImmutableMutationDiagnosed ==
    (spc = "done" /\ \E func \in AllFunctions : AssignsThrough(func.body, ParamNames(func)))
        => analyzer.errors # <<>>

\* C5: semantic_analyze returns on every tree the parser builds without a
\* diagnostic: no check reads through the type a failed sub-expression did
\* not get, and the analysis goes on to the last item of the program.
C5_AnalysisReturns ==
    /\ spc # "crashed"
    /\ spc = "done" => analyzer.i = Len(ast) + 1

RECURSIVE JumpsOutsideLoop(_, _), JumpsIn(_, _, _)
\* the statements of one kind at or below n that no loop of n encloses
JumpsOutsideLoop(n, kind) ==
    IF n.kind = kind THEN 1
    ELSE IF n.kind \in {"WHILE", "FOR", "LOOP"} THEN 0
    ELSE JumpsIn(Children(n), kind, 1)

JumpsIn(nodes, kind, i) ==
    IF i > Len(nodes) THEN 0
    ELSE JumpsOutsideLoop(nodes[i], kind) + JumpsIn(nodes, kind, i + 1)

Diagnostics(message) ==
    Cardinality({i \in 1..Len(analyzer.errors) : analyzer.errors[i].message = message})

\* C11: a break or a continue is diagnosed if and only if no while, for or
\* loop statement encloses it: once the analysis has returned there is one
\* "outside loop" diagnostic for each break, and one for each continue,
\* that stands outside every loop - in a function body, at top level or in
\* the body of a method - and none for those inside a loop, whatever if-arm
\* or block lies between the loop and the statement.
C11_JumpsDiagnosed ==
    spc = "done" =>
        /\ Diagnostics("Break statement outside loop") = JumpsIn(ast, "BREAK", 1)
        /\ Diagnostics("Continue statement outside loop") = JumpsIn(ast, "CONTINUE", 1)


\* two items of the program declare the same function or the same struct
DuplicateNames ==
    \E i, j \in 1..Len(ast) :
        /\ i < j
        /\ \/ {ast[i].kind, ast[j].kind} \subseteq {"FUNCTION", "EXTERN_FUNCTION"}
           \/ {ast[i].kind, ast[j].kind} = {"STRUCT"}
        /\ ast[i].name = ast[j].name

\* C12: when two top-level declarations introduce the same struct name, or
\* the same function name with fn or extern fn in either place, the analysis
\* records a diagnostic and semantic_analyze returns false.
C12_DuplicatesDiagnosed ==
    (spc = "done" /\ DuplicateNames)
        => (analyzer.errors # <<>> /\ ~analyzer.success)

\* C13: with or without diagnostics, the current scope is the global scope
\* again whenever the analysis of a top-level item has returned, and so
\* when semantic_analyze returns: each scope entered has been exited by a
\* call of its own, on the error paths as on the others, and no call of
\* symbol_table_exit_scope was made in the global scope.
C13_ScopesBalanced ==
    spc \in {"structs", "impls", "items", "done"} =>
        /\ Len(analyzer.scopes) = 1
        /\ analyzer.scopes[1].type = "GLOBAL"
        /\ analyzer.exited = analyzer.entered

\* the analysis has returned from a tree with diagnostics in nested scopes
C13_Witness ==
    /\ spc = "done"
    /\ analyzer.entered >= 4
    /\ Len(analyzer.errors) >= 1
    /\ Len(analyzer.scopes) = 1

----------------------------------------------------------------------------
\* the reads of x among the statements that come before every assignment
RECURSIVE EarlyReads(_, _)
EarlyReads(statements, i) ==
    IF i > Len(statements) \/ statements[i].kind = "ASSIGNMENT" THEN 0
    ELSE (IF statements[i].kind \in {"IDENTIFIER", "INDEX"} THEN 1 ELSE 0)
         + EarlyReads(statements, i + 1)

\* the program is one function that declares a `let mut` variable with a
\* type and no initializer, and then only assigns literals to it or to an
\* element of it, and reads it or an element of it
DeclaresThenUses ==
    /\ Len(ast) = 1 /\ ast[1].kind = "FUNCTION"
    /\ LET statements == ast[1].body.statements
       IN  /\ Len(statements) >= 1
           /\ statements[1].kind = "LET" /\ statements[1].is_mutable
           /\ statements[1].type # NULL /\ statements[1].value = NULLNODE
           /\ \A k \in 2..Len(statements) :
                 \/ /\ statements[k].kind = "ASSIGNMENT"
                    /\ RootName(statements[k].target) = statements[1].name
                    /\ statements[k].value.kind = "LITERAL"
                 \/ /\ statements[k].kind \in {"IDENTIFIER", "INDEX"}
                    /\ RootName(statements[k]) = statements[1].name

\* C19: a `let mut` variable declared with a type and no initializer can
\* then be assigned, by name or element by element, without any
\* diagnostic, and the reads after such an assignment are accepted: the
\* diagnostics of the analysis are one "Use of uninitialized variable" for
\* each read that comes before every assignment, and no other.
C19_AssignedThenRead ==
    (spc = "done" /\ DeclaresThenUses) =>
        /\ Diagnostics("Use of uninitialized variable") = EarlyReads(ast[1].body.statements, 1)
        /\ Len(analyzer.errors) = EarlyReads(ast[1].body.statements, 1)

----------------------------------------------------------------------------
\* the functions a program registers: its functions and extern functions
\* under their names, the methods of its impl blocks as Struct::method
RegisteredFunctions ==
    {[name |-> ast[i].name, params |-> ast[i].params] :
        i \in {j \in 1..Len(ast) : ast[j].kind \in {"FUNCTION", "EXTERN_FUNCTION"}}}
    \cup UNION {{[name |-> JoinPath(<<ast[i].struct_name, ast[i].functions[k].name>>, "::"),
                  params |-> ast[i].functions[k].params] : k \in 1..Len(ast[i].functions)} :
                   i \in {j \in 1..Len(ast) : ast[j].kind = "IMPL"}}

\* the calls f(args) that are statements of a function, println, print and
\* sqrt apart
PlainCallsOf(func) ==
    {func.body.statements[k] :
        k \in {j \in 1..Len(func.body.statements) :
                  /\ func.body.statements[j].kind = "CALL"
                  /\ func.body.statements[j].function.kind = "IDENTIFIER"
                  /\ func.body.statements[j].function.name \notin {"println", "print", "sqrt"}}}

\* C22: a call f(args) of a function that is not println, print or sqrt is
\* accepted without a diagnostic only if f names a registered function, the
\* number of arguments is its number of parameters and the type of each
\* argument is compatible with that of the parameter - whatever the shape
\* of the name, a path name A::b that names no registered function
\* included.  The calls are those in the bodies of the top-level functions.
C22_CallsResolved ==
    (spc = "done" /\ analyzer.errors = <<>>) =>
        \A i \in {j \in 1..Len(ast) : ast[j].kind = "FUNCTION"} :
            \A c \in PlainCallsOf(ast[i]) :
                \E f \in RegisteredFunctions :
                    /\ f.name = c.function.name
                    /\ Len(c.arguments) = Len(f.params)
                    /\ \A k \in 1..Len(c.arguments) :
                          semantic_check_types_compatible(f.params[k].type,
                                                          c.arguments[k].data_type)

----------------------------------------------------------------------------
\* the methods of the impl blocks, each with the struct of its block
MethodsOfImpls ==
    UNION {{[struct_name |-> ast[i].struct_name, method |-> ast[i].functions[k]] :
               k \in 1..Len(ast[i].functions)} :
              i \in {j \in 1..Len(ast) : ast[j].kind = "IMPL"}}

\* the method declares self with the type of a struct of another name
ForeignSelf(m) ==
    \E p \in 1..Len(m.method.params) :
        /\ m.method.params[p].name = "self"
        /\ m.method.params[p].type.kind = "struct"
        /\ m.method.params[p].type.name # m.struct_name

\* every identifier self at or below n has the type
RECURSIVE SelfTyped(_, _)
SelfTyped(n, type) ==
    /\ (n.kind = "IDENTIFIER" /\ n.name = "self") => n.data_type = type
    /\ \A i \in 1..Len(Children(n)) : SelfTyped(Children(n)[i], type)

\* C23: in an impl block for struct S, a method whose self parameter is
\* declared with a struct type of another name produces a diagnostic, and
\* in the body of a method the identifier self has the struct type S.
C23_SelfIsTheStruct ==
    spc = "done" =>
        \A m \in MethodsOfImpls :
            /\ ForeignSelf(m) =>
                  Diagnostics("self parameter type must match implementing struct") >= 1
            /\ SelfTyped(m.method.body, StructType(m.struct_name))

----------------------------------------------------------------------------
\* Properties of the symbol table

NamesOf(scope) == {scope.symbols[i].name : i \in 1..Len(scope.symbols)}

\* C14: after any sequence of calls no scope holds two symbols of one name.
\* A define of a name the current scope already has returns NULL and leaves
\* every scope as it was; a define of a name that the current scope does
\* not have succeeds, also when an enclosing scope has the name, and the
\* lookup of the name then gives the symbol just defined in the current
\* scope.
C14_UniquePerScope ==
    /\ \A s \in 1..Len(table.scopes) :
          \A i, j \in 1..Len(table.scopes[s].symbols) :
              table.scopes[s].symbols[i].name = table.scopes[s].symbols[j].name => i = j
    /\ last.op = "define" =>
          LET cur == Len(table.scopes)
          IN  IF last.name \in NamesOf(last.before[cur])
              THEN ~last.ok /\ table.scopes = last.before
              ELSE /\ last.ok
                   /\ symbol_table_lookup(table, last.name).type = last.type
                   /\ symbol_table_lookup(table, last.name)
                          = scope_lookup(table.scopes[cur], last.name)
                   /\ \A s \in 1..(cur - 1) : table.scopes[s] = last.before[s]

\* a define that shadows a symbol of another type in an enclosing scope has
\* succeeded, after a define that was refused
C14_Witness ==
    /\ last.op = "define" /\ last.ok /\ last.refused >= 1
    /\ Len(table.scopes) >= 2
    /\ \E s \in 1..(Len(table.scopes) - 1) :
          /\ last.name \in NamesOf(table.scopes[s])
          /\ scope_lookup(table.scopes[s], last.name).type # last.type

----------------------------------------------------------------------------
\* Properties of the type relation

----------------------------------------------------------------------------
\* Properties of the code generation

\* the pieces of text occur in out one after the other
Occurs(out, text) ==
    \E k \in 0..(Len(out) - Len(text)) : \A i \in 1..Len(text) : out[k + i] = text[i]

\* the struct the type of a receiver names, directly or behind a reference
\* or a pointer
ReceiverStruct(type) ==
    IF type.kind \in {"reference", "pointer"} THEN type_dereference(type).name ELSE type.name

\* the text S_method(obj, a1, ..., an) of a method call on a parameter whose
\* arguments are literals
RECURSIVE ArgumentsText(_, _)
ArgumentsText(arguments, i) ==
    IF i > Len(arguments) THEN <<>>
    ELSE <<", ", LiteralText(arguments[i].data_type)>> \o ArgumentsText(arguments, i + 1)

MethodCallText(func, c) ==
    LET obj == c.function.object.name
        p == CHOOSE p \in 1..Len(func.params) : func.params[p].name = obj
    IN  <<ReceiverStruct(func.params[p].type) \o "_" \o c.function.field_name \o "(", obj>>
        \o ArgumentsText(c.arguments, 1) \o <<")">>

\* the method calls that are statements of the body of a function
MethodCallsOf(func) ==
    {func.body.statements[k] :
        k \in {j \in 1..Len(func.body.statements) :
                  /\ func.body.statements[j].kind = "CALL"
                  /\ func.body.statements[j].function.kind = "FIELD"}}

\* C16: every method call obj.method(a1, ..., an) of a program that the
\* analysis has accepted, whether obj is a struct S or a reference or a
\* pointer to S, is in the generated text as S_method(obj, a1, ..., an).
C16_MethodCallsEmitted ==
    gpc = "done" =>
        \A i \in 1..Len(program) :
            program[i].kind = "FUNCTION" =>
                \A c \in MethodCallsOf(program[i]) :
                    Occurs(generator.out, MethodCallText(program[i], c))

\* the text an item of the program is to appear as, on its own
IncludeLine(item) ==
    IF item.is_system THEN "#include <" \o item.path \o ">"
    ELSE "#include \"" \o item.path \o "\""

ItemText(item) ==
    CASE item.kind = "INCLUDE" -> <<IncludeLine(item), "\n">>
      [] item.kind = "STRUCT" /\ ~item.is_extern -> generate_struct(codegen_create, item).out
      [] item.kind = "IMPL" -> generate_impl(codegen_create, item).out
      [] item.kind = "FUNCTION" -> generate_function(codegen_create, item).out
      [] OTHER -> <<>>

\* the texts of the items of one kind, in source order
RECURSIVE SectionText(_, _, _)
SectionText(items, kind, i) ==
    IF i > Len(items) THEN <<>>
    ELSE (IF items[i].kind = kind THEN ItemText(items[i]) ELSE <<>>)
         \o SectionText(items, kind, i + 1)

RECURSIVE LinesText(_, _)
LinesText(lines, i) ==
    IF i > Len(lines) THEN <<>> ELSE <<lines[i], "\n">> \o LinesText(lines, i + 1)

\* the user includes, an empty line, the structs that are not extern, the
\* methods of the impl blocks and the functions
SectionsText ==
    SectionText(program, "INCLUDE", 1) \o <<"", "\n">> \o SectionText(program, "STRUCT", 1)
    \o SectionText(program, "IMPL", 1) \o SectionText(program, "FUNCTION", 1)

\* C18 as stated: whatever the source order of the items, the emitted text
\* begins with the five standard #include lines, followed by one #include
\* per user include in source order, then the typedefs of the structs that
\* are not extern in source order, then the methods of the impl blocks,
\* then the functions; extern functions and extern structs emit nothing.
C18_BeginsWithIncludes ==
    gpc = "done" => generator.out = LinesText(StandardIncludes, 1) \o SectionsText

\* C18: whatever the source order of the items, the emitted text begins
\* with the comment line that names the compiler and then the five standard
\* #include lines, followed by one #include per user include in source
\* order, then the typedefs of the structs that are not extern in source
\* order, then the methods of the impl blocks, then the functions; extern
\* functions and extern structs emit nothing.
C18_BannerThenSections ==
    gpc = "done" =>
        generator.out = <<Banner, "\n">> \o LinesText(StandardIncludes, 1) \o SectionsText

\* the text of a program in which a function comes before a struct, and
\* the struct before an include, has been generated
C18_Witness ==
    /\ gpc = "done"
    /\ \E i, j, k \in 1..Len(program) :
          /\ i < j /\ j < k
          /\ program[i].kind = "FUNCTION"
          /\ program[j].kind = "STRUCT" /\ ~program[j].is_extern
          /\ program[k].kind = "INCLUDE"

\* the text of a program with an extern struct and an extern function has
\* been generated
C18_WitnessExtern ==
    /\ gpc = "done"
    /\ \E i, j \in 1..Len(program) :
          /\ program[i].kind = "STRUCT" /\ program[i].is_extern
          /\ program[j].kind = "EXTERN_FUNCTION"

\* the struct literals at or below a node in the order they are written,
\* each with whether it stands in the initializer of another struct literal
RECURSIVE LiteralsAt(_, _), LiteralsOf(_, _, _)
LiteralsAt(n, nested) ==
    IF n.kind = "STRUCT_LITERAL"
    THEN <<[struct_name |-> n.struct_name, bare |-> nested]>> \o LiteralsOf(n.field_values, TRUE, 1)
    ELSE LiteralsOf(Children(n), nested, 1)

LiteralsOf(nodes, nested, i) ==
    IF i > Len(nodes) THEN <<>>
    ELSE LiteralsAt(nodes[i], nested) \o LiteralsOf(nodes, nested, i + 1)

IsImpl(n) == n.kind = "IMPL"

IsFunction(n) == n.kind = "FUNCTION"

\* C20: a struct literal is written with the (Name) header if and only if
\* it is not nested in the initializer of another struct literal: every
\* literal that is a field value of a struct literal, at the first field or
\* a later one and at any depth, is written as a bare braced list, and
\* in_struct_init is false again once the outermost literal is written.
C20_NestedLiteralsBare ==
    /\ gpc # "idle" => ~generator.in_struct_init
    /\ gpc = "done" =>
          generator.literals = LiteralsOf(SelectSeq(program, IsImpl), FALSE, 1)
                               \o LiteralsOf(SelectSeq(program, IsFunction), FALSE, 1)

----------------------------------------------------------------------------
\* Properties of the diagnostics

\* C17: every diagnostic of the analysis carries a line >= 1 and a column
\* >= 1, those of a token of the construct it is about, whatever the kind
\* of the node: identifier and operator expressions, break, continue,
\* return, if, while, for, function declarations, struct declarations.
C17_DiagnosticsLocated ==
    spc = "reported" =>
        \A i \in 1..Len(analyzer.errors) :
            /\ analyzer.errors[i].line >= 1
            /\ analyzer.errors[i].column >= 1

\* the calls of print and println that are statements of a function
PrintCallsOf(func) ==
    SelectSeq(func.body.statements,
              LAMBDA c : /\ c.kind = "CALL" /\ c.function.kind = "IDENTIFIER"
                         /\ c.function.name \in {"print", "println"})

\* the format, the cast and the ?: of an argument of a type
FormatOf(type) ==
    CASE type.kind = "str" -> [format |-> "%s", cast |-> "", ternary |-> FALSE]
      [] type.kind \in {"i8", "i16", "i32", "i64"} ->
             [format |-> "%lld", cast |-> "(long long)", ternary |-> FALSE]
      [] type.kind \in {"u8", "u16", "u32", "u64"} ->
             [format |-> "%llu", cast |-> "(unsigned long long)", ternary |-> FALSE]
      [] type.kind \in {"f32", "f64"} -> [format |-> "%f", cast |-> "", ternary |-> FALSE]
      [] type.kind = "bool" -> [format |-> "%s", cast |-> "", ternary |-> TRUE]
      [] type.kind = "char" -> [format |-> "%c", cast |-> "", ternary |-> FALSE]

\* what is to be written for the arguments of a call, from argument i on:
\* each argument with the format of its type, the newline of println
\* after the last
RECURSIVE PrintedFrom(_, _), PrintedOf(_, _)
PrintedFrom(c, i) ==
    IF i > Len(c.arguments) THEN <<>>
    ELSE LET f == FormatOf(c.arguments[i].data_type)
         IN  <<[argument |-> i, format |-> f.format, cast |-> f.cast, ternary |-> f.ternary,
                newline |-> c.function.name = "println" /\ i = Len(c.arguments)]>>
             \o PrintedFrom(c, i + 1)

PrintedOf(calls, k) ==
    IF k > Len(calls) THEN <<>> ELSE PrintedFrom(calls[k], 1) \o PrintedOf(calls, k + 1)

\* C21: of every call of print or println that the analysis accepts, with
\* any number of arguments, each argument is written into a printf with the
\* format of its type - %s for str, %lld and a (long long) cast for a
\* signed integer, %llu and an (unsigned long long) cast for an unsigned
\* one, %f for f32 and f64, %s and `? "true" : "false"` for bool, %c for
\* char - println with a newline at the end; no argument is left out.
C21_EveryArgumentPrinted ==
    (gpc = "done" /\ Len(program) = 1 /\ program[1].kind = "FUNCTION") =>
        generator.printed = PrintedOf(PrintCallsOf(program[1]), 1)

\* the name with each "::" replaced by "_"
EmittedName(name) ==
    IF name \in PathNames
    THEN JoinPath(CHOOSE path \in Paths : name = JoinPath(path, "::"), "_")
    ELSE name

\* the calls of a function by name, println, print and sqrt apart, that
\* are statements of a function of the program
NamedCalls ==
    UNION {{program[i].body.statements[k] :
               k \in {j \in 1..Len(program[i].body.statements) :
                         LET c == program[i].body.statements[j]
                         IN  /\ c.kind = "CALL" /\ c.function.kind = "IDENTIFIER"
                             /\ c.function.name \notin {"println", "print", "sqrt"}}} :
              i \in {j \in 1..Len(program) : program[j].kind = "FUNCTION"}}

\* C24: an identifier that reaches the code generation is written as its
\* name with every "::" replaced by "_", so that no ':' is written: the
\* name a call is made by, of one identifier, of two or of more joined by
\* "::", is the text before the parenthesis of the call.
C24_PathNamesRewritten ==
    gpc = "done" =>
        \A c \in NamedCalls : Occurs(generator.out, <<EmittedName(c.function.name), "(">>)

\* the assignments to a variable of a literal that are statements of a
\* function of the program
AssignmentsOf ==
    UNION {{program[i].body.statements[k] :
               k \in {j \in 1..Len(program[i].body.statements) :
                         LET a == program[i].body.statements[j]
                         IN  /\ a.kind = "ASSIGNMENT" /\ a.target.kind = "IDENTIFIER"
                             /\ a.value.kind = "LITERAL"}} :
              i \in {j \in 1..Len(program) : program[j].kind = "FUNCTION"}}

\* the C operator of an assignment operator, "" for EQ
OperatorOf(op) ==
    CASE op = "PLUS_EQ" -> "+" [] op = "MINUS_EQ" -> "-" [] op = "STAR_EQ" -> "*"
      [] op = "SLASH_EQ" -> "/" [] OTHER -> ""

\* the texts x op= v and x = x op v of an assignment, x = v for EQ
AssignmentTexts(a) ==
    LET x == a.target.name
        v == LiteralText(a.value.data_type)
        o == OperatorOf(a.op)
    IN  IF a.op = "EQ" THEN {<<x, " = ", v, ";">>}
        ELSE {<<x, " " \o o \o "= ", v, ";">>, <<x, " = ", x, " " \o o \o " ", v, ";">>}

\* C25: the statement written for an assignment applies the operator of
\* the node: x op= v, op one of + - * /, is written as x op= v or as
\* x = x op v, and only the assignment with = is written as x = v.
C25_OperatorEmitted ==
    gpc = "done" =>
        \A a \in AssignmentsOf : \E text \in AssignmentTexts(a) : Occurs(generator.out, text)

\* the top-level items that are not extern declarations
DefiningItems ==
    {program[i] : i \in {j \in 1..Len(program) :
                            /\ program[j].kind # "EXTERN_FUNCTION"
                            /\ ~(program[j].kind = "STRUCT" /\ program[j].is_extern)}}

\* the text that defines an item: the declarator of a let, the text of the
\* item for the others
Defined(out, item) ==
    IF item.kind = "LET" THEN \E k \in 1..Len(out) : out[k] = " " \o item.name
    ELSE Occurs(out, ItemText(item))

\* C26: every top-level item the analysis accepted and that is not an
\* extern declaration has its definition in the emitted text, a top-level
\* let among them.
C26_TopLevelItemsDefined ==
    gpc = "done" => \A item \in DefiningItems : Defined(generator.out, item)

\* a text that is no character constant of C
Malformed == "malformed"

\* the byte a character constant of C denotes: one byte between quotes
\* that is no quote, backslash, newline or NUL, or a simple escape sequence
CharConstantValue(text) ==
    CASE Len(text) = 3 /\ text[1] = "'" /\ text[3] = "'"
         /\ text[2] \notin {"'", "\\", "\n", NUL} -> text[2]
      [] Len(text) = 4 /\ text[1] = "'" /\ text[4] = "'" /\ text[2] = "\\"
         /\ text[3] \in {"n", "t", "r", "0", "\\", "'", "\""} -> EscapeValue(text[3])
      [] OTHER -> Malformed

\* C27: the text written for a character literal the lexer accepted,
\* plain or escaped, is one character constant of C that denotes the
\* byte the lexer decoded.
C27_CharRoundTrip ==
    gpc = "done" => CharConstantValue(generator.out) = lexer.tokens[1].char_value

\* C28: every token read while parsing a token sequence that ends with EOF
\* is at an index of the array: the cursor stays on a token of the
\* sequence, and previous() is never read while the cursor is at 0.
C28_TokenReadsInRange ==
    /\ parser.current + 1 \in 1..Len(tokens)
    /\ "oob_read" \notin parser.ub

\* C29: the operand the `::` postfix is applied to is an Identifier node:
\* the name of an operand that is missing, or that is a node of another
\* kind, is never read.
C29_PathOperandIsIdentifier ==
    parser.ub \cap {"null_deref", "wild_read"} = {}

\* C30: on every exit path of compile() the token array is released
\* exactly once, and never more than once before.
C30_TokensReleasedOnce ==
    drv.prog = "jfmc" =>
        /\ drv.token_frees <= 1
        /\ drv.pc = "done" => drv.token_frees = 1

============================================================================
